---- MODULE Spec2Model ----
(***************************************************************************)
(* Command/response bridge of unreal-mcp.                                  *)
(*                                                                         *)
(* Seven programs are modelled.  program = "unreal_mcp_server" is the      *)
(* UnrealConnection class of src/Python/unreal_mcp_server.py, which        *)
(* reconnects for every command and frames the reply by trial JSON         *)
(* parsing.  program = "unreal_bridge" is the module                       *)
(* src/Python/unreal_mcp/bridge/unreal_bridge.py, which keeps one module   *)
(* level socket and frames the reply by a trailing newline.                *)
(* program = "tools" is the tool layer of unreal_mcp_server.py: the tools  *)
(* of src/Python/tools, which obtain the module's UnrealConnection from    *)
(* get_unreal_connection and send one command on it.  program = "server"   *)
(* is the second copy of UnrealConnection, in                              *)
(* src/Python/unreal_mcp/server.py.  program = "test_cube" is send_command *)
(* of src/Python/scripts/actors/test_cube.py, and "test_basic_blueprint"   *)
(* and "test_input_mapping" are the main functions of the scripts of these *)
(* names.  The exit of server_lifespan is a step of "tools" (the lifespan  *)
(* of unreal_mcp_server.py) and of "unreal_bridge" (that of server.py,     *)
(* which holds the bridge), after which the process makes no call.         *)
(*                                                                         *)
(* Text is a sequence of one-character strings, so that byte streams can   *)
(* be split at every position.  The two bytes of the UTF-8 encoding of     *)
(* U+00E9 are written "C3" and "A9".  Texts produced by the Python runtime *)
(* (exception messages) are kept as one-element sequences.                 *)
(***************************************************************************)
EXTENDS Integers, Sequences, FiniteSets, TLC

(***************************************************************************)
(* State.                                                                  *)
(*   program    which program runs                                         *)
(*   socks      the socket table                                           *)
(*   unreal_connection   the UnrealConnection object of unreal_mcp_server  *)
(*   unreal_global       whether _unreal_connection of unreal_mcp_server   *)
(*                       is an object (unreal_connection) and not None     *)
(*   bridge_connection   _connection of unreal_bridge                      *)
(*   calls      send_command calls made                                    *)
(*   attempts   socket.connect calls made by send_command calls            *)
(*   last       the last operation: its name, the index of its input, its  *)
(*              outcome, the bytes it wrote and the socket it used; the    *)
(*              name is "blocked" for a send_command that never returns;   *)
(*              gone is how a socket whose peer had closed answered, ""    *)
(*              when the call's peer was there; args is the arguments of   *)
(*              an add_component_to_blueprint invocation                   *)
(*   bridge_host  the host and port unreal_bridge is configured with       *)
(*   inflight   for each concurrent caller, how far its send_command has    *)
(*              got and the socket it connected or was handed               *)
(*   main       where the main function of a test script is: the statement *)
(*              it executes next, its variable sock, and whether it runs   *)
(***************************************************************************)
VARIABLES program, socks, unreal_connection, unreal_global, bridge_connection,
          bridge_host, calls, attempts, last, inflight, main

(***************************************************************************)
(* Python values.  Every value has the same four fields so that any two    *)
(* values can be compared: t is the type, s the text of a str or the       *)
(* digits of an int, arr the items of a list, obj the key -> value mapping *)
(* of a dict.                                                              *)
(***************************************************************************)
Mk(t, s, arr, obj) == [t |-> t, s |-> s, arr |-> arr, obj |-> obj]

PyNone == Mk("none", <<>>, <<>>, <<>>)

PyTrue == Mk("true", <<>>, <<>>, <<>>)

PyFalse == Mk("false", <<>>, <<>>, <<>>)

PyStr(s) == Mk("str", s, <<>>, <<>>)

PyInt(digits) == Mk("int", digits, <<>>, <<>>)

\* A float; s is its repr.
PyFloat(digits) == Mk("float", digits, <<>>, <<>>)

PyList(items) == Mk("list", <<>>, items, <<>>)

PyDict(obj) == Mk("dict", <<>>, <<>>, obj)

\* A Python object json.dumps cannot serialize (a set, a bytes object, ...).
PyObject == Mk("object", <<>>, <<>>, <<>>)

\* d[k] = v on a dict's mapping.
Put(obj, k, v) == [y \in (DOMAIN obj) \cup {k} |-> IF y = k THEN v ELSE obj[y]]

\* k in d
HasKey(d, k) == k \in DOMAIN d.obj

\* d.get(k, default)
GetOr(d, k, default) == IF HasKey(d, k) THEN d.obj[k] ELSE default

\* d.get(k)
Get(d, k) == GetOr(d, k, PyNone)

\* bool(v): None, False, 0, "", [] and {} are falsy.
Truthy(v) ==
    CASE v.t = "none" -> FALSE
      [] v.t = "false" -> FALSE
      [] v.t = "true" -> TRUE
      [] v.t = "str" -> v.s # <<>>
      [] v.t = "int" -> v.s # <<"0">>
      [] v.t = "float" -> v.s # <<"0", ".", "0">>
      [] v.t = "list" -> v.arr # <<>>
      [] v.t = "dict" -> DOMAIN v.obj # {}
      [] OTHER -> TRUE

\* a or b
PyOr(a, b) == IF Truthy(a) THEN a ELSE b

(***************************************************************************)
(* The texts the code and the peer use.                                    *)
(***************************************************************************)
T_status == <<"s", "t", "a", "t", "u", "s">>

T_success == <<"s", "u", "c", "c", "e", "s", "s">>

T_error == <<"e", "r", "r", "o", "r">>

T_message == <<"m", "e", "s", "s", "a", "g", "e">>

T_result == <<"r", "e", "s", "u", "l", "t">>

T_type == <<"t", "y", "p", "e">>

T_params == <<"p", "a", "r", "a", "m", "s">>

T_pong == <<"p", "o", "n", "g">>

T_ping == <<"p", "i", "n", "g">>

T_name == <<"n", "a", "m", "e">>

T_not_found == <<"n", "o", "t", " ", "f", "o", "u", "n", "d">>

Quote == "\""

Whitespace == {" ", "\n"}

Digits == {"0", "1", "2"}

\* Characters that may not appear raw inside a JSON string.
Control == {"\n"}

(***************************************************************************)
(* bytes.decode('utf-8').  "C3" is the lead byte of a two-byte sequence    *)
(* and "A9" a continuation byte; every other byte is ASCII.  A lead byte   *)
(* at the end of the data ("unexpected end of data"), a lead byte not      *)
(* followed by a continuation byte and a continuation byte on its own      *)
(* ("invalid start byte") raise UnicodeDecodeError.                        *)
(***************************************************************************)
Utf8Decode(b) ==
    IF \A i \in 1..Len(b) :
          /\ b[i] = "C3" => (i < Len(b) /\ b[i + 1] = "A9")
          /\ b[i] = "A9" => (i > 1 /\ b[i - 1] = "C3")
    THEN [ok |-> TRUE,
          chars |-> SelectSeq([i \in 1..Len(b) |-> IF b[i] = "C3" THEN "U+00E9" ELSE b[i]],
                              LAMBDA ch : ch # "A9")]
    ELSE [ok |-> FALSE, chars |-> <<>>]

(***************************************************************************)
(* json.loads on decoded text: objects, arrays, strings without escapes,   *)
(* non-negative integers, true, false, null, with optional whitespace      *)
(* around every token, and nothing but whitespace after the value.         *)
(***************************************************************************)
RECURSIVE SkipWs(_, _)
SkipWs(s, i) == IF i <= Len(s) /\ s[i] \in Whitespace THEN SkipWs(s, i + 1) ELSE i

\* Index of the quote that closes a string whose content starts at j; 0 if none.
RECURSIVE StrEnd(_, _)
StrEnd(s, j) ==
    IF j > Len(s) THEN 0
    ELSE IF s[j] = Quote THEN j
    ELSE IF s[j] \in Control THEN 0
    ELSE StrEnd(s, j + 1)

\* Index after the last digit of the digit run that starts at j.
RECURSIVE NumEnd(_, _)
NumEnd(s, j) == IF j <= Len(s) /\ s[j] \in Digits THEN NumEnd(s, j + 1) ELSE j

ParseFail == [ok |-> FALSE, v |-> PyNone, i |-> 0]

ParseOk(v, i) == [ok |-> TRUE, v |-> v, i |-> i]

StartsAt(s, i, w) == i + Len(w) - 1 <= Len(s) /\ SubSeq(s, i, i + Len(w) - 1) = w

RECURSIVE ParseValue(_, _), ParseMembers(_, _, _), ParseElements(_, _, _)
ParseValue(s, i) ==
    IF i > Len(s) THEN ParseFail
    ELSE IF s[i] = "{"
    THEN LET j == SkipWs(s, i + 1)
         IN IF j <= Len(s) /\ s[j] = "}"
            THEN ParseOk(PyDict(<<>>), j + 1)
            ELSE ParseMembers(s, j, <<>>)
    ELSE IF s[i] = "["
    THEN LET j == SkipWs(s, i + 1)
         IN IF j <= Len(s) /\ s[j] = "]"
            THEN ParseOk(PyList(<<>>), j + 1)
            ELSE ParseElements(s, j, <<>>)
    ELSE IF s[i] = Quote
    THEN LET e == StrEnd(s, i + 1)
         IN IF e = 0 THEN ParseFail ELSE ParseOk(PyStr(SubSeq(s, i + 1, e - 1)), e + 1)
    ELSE IF s[i] = "0"
    THEN ParseOk(PyInt(<<"0">>), i + 1)
    ELSE IF s[i] \in Digits
    THEN LET e == NumEnd(s, i) IN ParseOk(PyInt(SubSeq(s, i, e - 1)), e)
    ELSE IF StartsAt(s, i, <<"t", "r", "u", "e">>) THEN ParseOk(PyTrue, i + 4)
    ELSE IF StartsAt(s, i, <<"f", "a", "l", "s", "e">>) THEN ParseOk(PyFalse, i + 5)
    ELSE IF StartsAt(s, i, <<"n", "u", "l", "l">>) THEN ParseOk(PyNone, i + 4)
    ELSE ParseFail

\* The members of an object from the key at i on; acc holds the pairs read.
ParseMembers(s, i, acc) ==
    IF i > Len(s) \/ s[i] # Quote THEN ParseFail
    ELSE LET e == StrEnd(s, i + 1)
         IN IF e = 0 THEN ParseFail
            ELSE LET k == SubSeq(s, i + 1, e - 1)
                     c == SkipWs(s, e + 1)
                 IN IF c > Len(s) \/ s[c] # ":" THEN ParseFail
                    ELSE LET r == ParseValue(s, SkipWs(s, c + 1))
                         IN IF ~r.ok THEN ParseFail
                            ELSE LET d == SkipWs(s, r.i)
                                 IN IF d > Len(s) THEN ParseFail
                                    ELSE IF s[d] = "}"
                                    THEN ParseOk(PyDict(Put(acc, k, r.v)), d + 1)
                                    ELSE IF s[d] = ","
                                    THEN ParseMembers(s, SkipWs(s, d + 1), Put(acc, k, r.v))
                                    ELSE ParseFail

\* The elements of an array from the value at i on; acc holds the items read.
ParseElements(s, i, acc) ==
    LET r == ParseValue(s, i)
    IN IF ~r.ok THEN ParseFail
       ELSE LET d == SkipWs(s, r.i)
            IN IF d > Len(s) THEN ParseFail
               ELSE IF s[d] = "]"
               THEN ParseOk(PyList(Append(acc, r.v)), d + 1)
               ELSE IF s[d] = ","
               THEN ParseElements(s, SkipWs(s, d + 1), Append(acc, r.v))
               ELSE ParseFail

\* json.loads(text): ok is FALSE where json.JSONDecodeError is raised.
JsonLoads(s) ==
    LET r == ParseValue(s, SkipWs(s, 1))
    IN IF r.ok /\ SkipWs(s, r.i) > Len(s)
       THEN [ok |-> TRUE, v |-> r.v]
       ELSE [ok |-> FALSE, v |-> PyNone]


(***************************************************************************)
(* json.dumps(value) with the default separators ", " and ": ", and the    *)
(* compact encoding the engine uses for its replies.  A dict is written in *)
(* insertion order; the dicts of the model are all built in the order of   *)
(* KeyOrder.  Only ASCII text is serialized by the bridge side.            *)
(***************************************************************************)
T_a == <<"a">>

T_blueprint_name == <<"blueprint_name">>

T_component_type == <<"component_type">>

T_component_name == <<"component_name">>

T_location == <<"location">>

T_rotation == <<"rotation">>

T_scale == <<"scale">>

\* The keys of the dicts that are serialized, in the order the code inserts
\* them.
KeyOrder ==
    <<T_type, T_params, T_name, T_status, T_success, T_error, T_message, T_result, T_pong, T_a,
      T_blueprint_name, T_component_type, T_component_name, T_location, T_rotation, T_scale>>

RECURSIVE Serializable(_)
Serializable(v) ==
    /\ v.t # "object"
    /\ \A n \in DOMAIN v.arr : Serializable(v.arr[n])
    /\ \A k \in DOMAIN v.obj : Serializable(v.obj[k])

RECURSIVE Dumps(_, _, _), DumpItems(_, _, _, _), DumpMembers(_, _, _, _, _)
Dumps(v, itemSep, keySep) ==
    CASE v.t = "none" -> <<"n", "u", "l", "l">>
      [] v.t = "true" -> <<"t", "r", "u", "e">>
      [] v.t = "false" -> <<"f", "a", "l", "s", "e">>
      [] v.t = "int" -> v.s
      [] v.t = "float" -> v.s
      [] v.t = "str" -> <<Quote>> \o v.s \o <<Quote>>
      [] v.t = "list" -> <<"[">> \o DumpItems(v.arr, 1, itemSep, keySep) \o <<"]">>
      [] v.t = "dict" ->
            <<"{">> \o DumpMembers(v.obj, SelectSeq(KeyOrder, LAMBDA k : k \in DOMAIN v.obj),
                                   1, itemSep, keySep) \o <<"}">>
      [] OTHER -> <<>>

DumpItems(arr, n, itemSep, keySep) ==
    IF n > Len(arr) THEN <<>>
    ELSE (IF n > 1 THEN itemSep ELSE <<>>) \o Dumps(arr[n], itemSep, keySep)
         \o DumpItems(arr, n + 1, itemSep, keySep)

DumpMembers(obj, keys, n, itemSep, keySep) ==
    IF n > Len(keys) THEN <<>>
    ELSE (IF n > 1 THEN itemSep ELSE <<>>) \o <<Quote>> \o keys[n] \o <<Quote>> \o keySep
         \o Dumps(obj[keys[n]], itemSep, keySep)
         \o DumpMembers(obj, keys, n + 1, itemSep, keySep)

\* json.dumps(v): ok is FALSE where TypeError is raised.
JsonDumps(v) ==
    IF Serializable(v)
    THEN [ok |-> TRUE, chars |-> Dumps(v, <<",", " ">>, <<":", " ">>)]
    ELSE [ok |-> FALSE, chars |-> <<>>]

\* str.encode('utf-8')
RECURSIVE Utf8Encode(_)
Utf8Encode(chars) ==
    IF chars = <<>> THEN <<>>
    ELSE IF Len(chars) = 1
    THEN (IF chars[1] = "U+00E9" THEN <<"C3", "A9">> ELSE chars)
    ELSE Utf8Encode(SubSeq(chars, 1, Len(chars) \div 2))
         \o Utf8Encode(SubSeq(chars, Len(chars) \div 2 + 1, Len(chars)))

(***************************************************************************)
(* Exceptions and the outcome of a call: either a returned value or a      *)
(* raised exception.                                                       *)
(***************************************************************************)
NoExc == [type |-> "", msg |-> <<>>]

Exc(type, msg) == [type |-> type, msg |-> msg]

Return(v) == [raised |-> FALSE, v |-> v, exc |-> NoExc]

Raise(e) == [raised |-> TRUE, v |-> PyNone, exc |-> e]

PyBytes(b) == Mk("bytes", b, <<>>, <<>>)

\* The outcome of a call that never returns.
Blocked == [raised |-> FALSE, v |-> Mk("blocked", <<>>, <<>>, <<>>), exc |-> NoExc]

\* type(v).__name__
TypeName(v) ==
    CASE v.t = "none" -> "NoneType"
      [] v.t \in {"true", "false"} -> "bool"
      [] OTHER -> v.t

\* AttributeError of v.attr for a value without that attribute.
NoAttribute(v, attr) == Exc("AttributeError", <<TypeName(v), "object has no attribute", attr>>)

\* The exception a failed socket operation raises.
SocketError(how) ==
    CASE how = "timeout" -> Exc("socket.timeout", <<"timed out">>)
      [] how = "refused" -> Exc("ConnectionRefusedError", <<"Connection refused">>)
      [] how = "reset" -> Exc("ConnectionResetError", <<"Connection reset by peer">>)
      [] how = "brokenpipe" -> Exc("BrokenPipeError", <<"Broken pipe">>)
      [] OTHER -> Exc("OSError", <<how>>)

\* The classes an exception of the given type is an instance of.
Bases(type) ==
    CASE type = "socket.timeout" -> {"socket.timeout", "OSError", "Exception"}
      [] type \in {"ConnectionRefusedError", "ConnectionResetError", "BrokenPipeError"} ->
            {type, "ConnectionError", "OSError", "Exception"}
      [] type \in {"JSONDecodeError", "UnicodeDecodeError"} -> {type, "ValueError", "Exception"}
      [] OTHER -> {type, "Exception"}

\* Whether "except <classes>" handles exception e.
Catches(classes, e) == classes \cap Bases(e.type) # {}

(***************************************************************************)
(* The peer's side of one connection: the chunks successive recv calls     *)
(* return, and what the peer does once they are delivered: "silent" (it    *)
(* sends nothing more and keeps the connection open, so recv times out),   *)
(* "close" (recv returns b'') or "reset" (recv raises), or "stream" (it    *)
(* keeps delivering bytes, each read in time, that never complete a JSON   *)
(* document and never end in a newline).  The loop of                      *)
(* receive_full_response has no exit while a peer streams: every read      *)
(* appends a chunk, the trial parse fails and the loop reads again.        *)
(*                                                                         *)
(* UnrealConnection.receive_full_response: data is the join of the chunks  *)
(* received so far and i the next chunk of the peer.                       *)
(***************************************************************************)
\* ReceiveLoop as it would be if an empty read always ended the loop, also
\* when no chunk has been received.
RECURSIVE ReceiveLoopWithoutEmptyCheck(_, _, _, _)
ReceiveLoopWithoutEmptyCheck(reads, end, i, data) ==
    IF i > Len(reads)
    THEN CASE end = "close" -> Return(PyNone)
           [] end = "silent" ->
                IF data # <<>> /\ Utf8Decode(data).ok /\ JsonLoads(Utf8Decode(data).chars).ok
                THEN Return(PyBytes(data))
                ELSE Raise(Exc("Exception", <<"Timeout receiving Unreal response">>))
           [] end = "stream" -> Blocked
           [] OTHER -> Raise(SocketError(end))
    ELSE LET joined == data \o reads[i]
             decoded == Utf8Decode(joined)
         IN IF ~decoded.ok
            THEN Raise(Exc("UnicodeDecodeError", <<"'utf-8' codec can't decode">>))
            ELSE IF JsonLoads(decoded.chars).ok
            THEN Return(PyBytes(joined))
            ELSE ReceiveLoopWithoutEmptyCheck(reads, end, i + 1, joined)

RECURSIVE ReceiveLoop(_, _, _, _)
ReceiveLoop(reads, end, i, data) ==
    IF i > Len(reads)
    THEN CASE end = "close" ->
                IF data = <<>>
                THEN Raise(Exc("Exception", <<"Connection closed before receiving data">>))
                ELSE Return(PyNone)
           [] end = "silent" ->
                IF data # <<>> /\ Utf8Decode(data).ok /\ JsonLoads(Utf8Decode(data).chars).ok
                THEN Return(PyBytes(data))
                ELSE Raise(Exc("Exception", <<"Timeout receiving Unreal response">>))
           [] end = "stream" -> Blocked
           [] OTHER -> Raise(SocketError(end))
    ELSE LET joined == data \o reads[i]
             decoded == Utf8Decode(joined)
         IN IF ~decoded.ok
            THEN Raise(Exc("UnicodeDecodeError", <<"'utf-8' codec can't decode">>))
            ELSE IF JsonLoads(decoded.chars).ok
            THEN Return(PyBytes(joined))
            ELSE ReceiveLoop(reads, end, i + 1, joined)

ReceiveFullResponse(reads, end) == ReceiveLoop(reads, end, 1, <<>>)


(***************************************************************************)
(* The inputs of a call: the command, its parameters and the behaviour of  *)
(* the peer during the call (outcome of connect, outcome of sendall, the   *)
(* chunks it delivers and what it does afterwards).  The inputs are listed *)
(* in InputSeq and an input is named by its index there.                   *)
(***************************************************************************)
MaxSockets == 3

MaxCalls == 3

Absent == Mk("absent", <<>>, <<>>, <<>>)

PutOpt(obj, k, v) == IF v = Absent THEN obj ELSE Put(obj, k, v)

Reply(status, success, error, message, result) ==
    PyDict(PutOpt(PutOpt(PutOpt(PutOpt(PutOpt(<<>>, T_status, status), T_success, success),
                                T_error, error), T_message, message), T_result, result))

Pong == PyDict(Put(<<>>, T_pong, PyTrue))

StatusOpts == <<Absent, PyStr(T_success), PyStr(T_error)>>

SuccessOpts == <<Absent, PyTrue, PyFalse>>

ErrorOpts == <<Absent, PyStr(<<>>), PyStr(<<"x">>), PyNone>>

MessageOpts == <<Absent, PyStr(<<>>), PyStr(T_not_found)>>

\* Replies that are JSON objects: every combination of the fields the code reads.
FieldReplies ==
    [i \in 1..108 |->
        LET j == i - 1
        IN Reply(StatusOpts[(j % 3) + 1], SuccessOpts[((j \div 3) % 3) + 1],
                 ErrorOpts[((j \div 9) % 4) + 1], MessageOpts[((j \div 36) % 3) + 1], Absent)]

ResultReplies ==
    [i \in 1..9 |->
        LET j == i - 1
        IN Reply(StatusOpts[(j % 3) + 1], SuccessOpts[((j \div 3) % 3) + 1], Absent, Absent, Pong)]

Accented == PyDict(Put(<<>>, T_a, PyStr(<<"U+00E9">>)))

\* Replies that are valid JSON but not objects.
OtherReplies ==
    << PyList(<<>>), PyList(<<PyInt(<<"1">>)>>), PyStr(<<"x">>), PyInt(<<"1">>),
       PyInt(<<"1", "2">>), PyTrue, PyFalse, PyNone >>

Replies == FieldReplies \o ResultReplies \o <<Accented>> \o OtherReplies

\* The bytes of a reply as the engine writes it.
Wire(v) == Utf8Encode(Dumps(v, <<",">>, <<":">>))

\* Byte strings that are not one complete JSON document.
BrokenWire ==
    << <<>>, <<"\n">>, <<"x">>, <<"{", Quote, "a">>, <<"A9">>, <<"{", "}", "x">>,
       <<"[", "1", ",">>, <<"x", "\n">>, <<"A9", "\n">> >>

\* Replies also delivered in pieces.
SplitReplies ==
    << Reply(PyStr(T_success), Absent, Absent, Absent, Pong),
       Reply(Absent, PyFalse, Absent, PyStr(T_not_found), Absent),
       Accented, PyInt(<<"1", "2">>), PyList(<<PyInt(<<"1">>)>>) >>

Whole(b) == IF b = <<>> THEN <<>> ELSE <<b>>

ByteByByte(b) == [i \in 1..Len(b) |-> <<b[i]>>]

Halves(b) == IF Len(b) < 2 THEN Whole(b)
             ELSE <<SubSeq(b, 1, Len(b) \div 2), SubSeq(b, (Len(b) \div 2) + 1, Len(b))>>

Ends == <<"silent", "close", "reset">>

Peer(reads, end) == [reads |-> reads, end |-> end]

\* What the peer delivers and then does on one connection: every reply in one
\* chunk, without and with a newline after it; some replies byte by byte and
\* in two halves; and the broken byte strings with every ending.
PeerReads ==
    [i \in 1..(2 * Len(Replies)) |->
        Peer(Whole(Wire(Replies[(i + 1) \div 2]) \o (IF i % 2 = 0 THEN <<"\n">> ELSE <<>>)),
             "close")]
    \o [i \in 1..(4 * Len(SplitReplies)) |->
        LET j == i - 1
            b == Wire(SplitReplies[(j \div 4) + 1]) \o (IF j % 2 = 0 THEN <<"\n">> ELSE <<>>)
        IN Peer(IF (j \div 2) % 2 = 0 THEN ByteByByte(b) ELSE Halves(b), "close")]
    \o [i \in 1..(3 * Len(BrokenWire)) |->
        LET j == i - 1 IN Peer(Whole(BrokenWire[(j \div 3) + 1]), Ends[(j % 3) + 1])]

Params ==
    << PyDict(<<>>), PyDict(Put(<<>>, T_name, PyStr(<<"x">>))), PyObject,
       PyDict(Put(<<>>, T_name, PyObject)) >>

\* pad is the number of bytes of JSON whitespace (spaces) the peer writes
\* before the bytes of reads; they arrive in reads of their own.
Input(command, params, connect, send, reads, end) ==
    [command |-> command, params |-> params, conn |-> connect, send |-> send,
     reads |-> reads, end |-> end, pad |-> 0]

NoInput == Input(PyNone, PyNone, "", "", <<>>, "")

GoodReads == Whole(Wire(Reply(PyStr(T_success), Absent, Absent, Absent, Pong)) \o <<"\n">>)

ConnectFailures == <<"refused", "timeout">>

SendFailures == <<"brokenpipe", "reset", "timeout">>

\* The most one recv returns.
ChunkSize == 4096

\* The bridge's limit on the bytes it accumulates.
BufferLimit == 1024 * 1024

\* Peers that pad their answer with spaces: up to one byte short of the
\* limit before a reply that ends with a newline, past the limit by one whole
\* read before the same reply, and up to one byte short of the limit before a
\* reply without a newline from a peer that then stays silent.
PaddedReads ==
    << [pad |-> BufferLimit - 1, reads |-> GoodReads, end |-> "close"],
       [pad |-> BufferLimit + ChunkSize, reads |-> GoodReads, end |-> "close"],
       [pad |-> BufferLimit - 1, reads |-> <<<<"{", "}">>>>, end |-> "silent"] >>

\* Peers whose answer has a newline inside the message, delivered whole and
\* split after that newline, and a peer whose read holds more bytes after
\* the newline that ends the message.
LineReads ==
    << Peer(<< <<"{", "\n", "}", "\n">> >>, "close"),
       Peer(<< <<"{", "\n">>, <<"}", "\n">> >>, "close"),
       Peer(<< <<"{", "}", "\n", "{", "}", "\n">> >>, "close") >>

\* Peers that stream without end.
StreamReads == << Peer(<<>>, "stream"), Peer(<< <<"{">> >>, "stream") >>

(***************************************************************************)
(* The arguments of add_component_to_blueprint (tools/blueprint_tools.py). *)
(***************************************************************************)
\* A text float() reads as a whole number.  float() also accepts signs,
\* fractions, exponents and surrounding blanks; no argument below has them.
IsDecimal(s) ==
    /\ s # <<>>
    /\ \A i \in DOMAIN s : s[i] \in Digits
    /\ Len(s) = 1 \/ s[1] # "0"

\* float(v): the float, or the ValueError or TypeError raised.
ToFloat(v) ==
    CASE v.t = "int" -> Return(PyFloat(v.s \o <<".", "0">>))
      [] v.t = "float" -> Return(v)
      [] v.t = "true" -> Return(PyFloat(<<"1", ".", "0">>))
      [] v.t = "false" -> Return(PyFloat(<<"0", ".", "0">>))
      [] v.t = "str" ->
            IF IsDecimal(v.s)
            THEN Return(PyFloat(v.s \o <<".", "0">>))
            ELSE Raise(Exc("ValueError",
                           <<"could not convert string to float: '">> \o v.s \o <<"'">>))
      [] OTHER ->
            Raise(Exc("TypeError", <<"float() argument must be a string or a real number, not '",
                                     TypeName(v), "'">>))

\* [float(val) for val in arr]: the list, or the first exception raised.
RECURSIVE FloatItems(_, _, _)
FloatItems(arr, i, done) ==
    IF i > Len(arr)
    THEN Return(PyList(done))
    ELSE IF ToFloat(arr[i]).raised
    THEN ToFloat(arr[i])
    ELSE FloatItems(arr, i + 1, Append(done, ToFloat(arr[i]).v))

\* [0.0, 0.0, 0.0]
ZeroVector == PyList(<<PyFloat(<<"0", ".", "0">>), PyFloat(<<"0", ".", "0">>),
                       PyFloat(<<"0", ".", "0">>)>>)

\* [1.0, 1.0, 1.0]
UnitVector == PyList(<<PyFloat(<<"1", ".", "0">>), PyFloat(<<"1", ".", "0">>),
                       PyFloat(<<"1", ".", "0">>)>>)

\* The arguments of one invocation.  component_properties keeps its default,
\* the empty dict, for which the tool adds no key.
Args(location, rotation, scale) ==
    [blueprint_name |-> PyStr(<<"B", "P">>), component_type |-> PyStr(<<"M">>),
     component_name |-> PyStr(<<"C">>), location |-> location, rotation |-> rotation,
     scale |-> scale]

NoArgs == Args(Absent, Absent, Absent)

\* params as the tool first builds it.
ComponentParams(a) ==
    Put(Put(Put(Put(Put(Put(<<>>, T_blueprint_name, a.blueprint_name),
                        T_component_type, a.component_type),
                    T_component_name, a.component_name),
                T_location, PyOr(a.location, ZeroVector)),
            T_rotation, PyOr(a.rotation, ZeroVector)),
        T_scale, PyOr(a.scale, UnitVector))

VectorNames == <<T_location, T_rotation, T_scale>>

\* The validation loop from its i-th name on: ok with the params to send, or
\* not ok with the name whose format is invalid or the exception float()
\* raised.
RECURSIVE ValidateVectors(_, _)
ValidateVectors(obj, i) ==
    IF i > Len(VectorNames)
    THEN [ok |-> TRUE, obj |-> obj, name |-> <<>>, exc |-> NoExc]
    ELSE IF ~(obj[VectorNames[i]].t = "list" /\ Len(obj[VectorNames[i]].arr) = 3)
    THEN [ok |-> FALSE, obj |-> obj, name |-> VectorNames[i], exc |-> NoExc]
    ELSE IF FloatItems(obj[VectorNames[i]].arr, 1, <<>>).raised
    THEN [ok |-> FALSE, obj |-> obj, name |-> <<>>,
          exc |-> FloatItems(obj[VectorNames[i]].arr, 1, <<>>).exc]
    ELSE ValidateVectors([obj EXCEPT ![VectorNames[i]] =
                              FloatItems(obj[VectorNames[i]].arr, 1, <<>>).v], i + 1)

\* Values given for location, rotation or scale: the empty list, None, two
\* lists of three convertible values, a list of two, a str of three
\* characters, and lists of three with a text that is no number and with None.
Vectors ==
    << PyList(<<>>),
       PyNone,
       PyList(<<PyInt(<<"1">>), PyInt(<<"2">>), PyInt(<<"2">>)>>),
       PyList(<<PyTrue, PyStr(<<"2">>), PyInt(<<"2">>)>>),
       PyList(<<PyInt(<<"1">>), PyInt(<<"2">>)>>),
       PyStr(<<"a", "b", "c">>),
       PyList(<<PyInt(<<"1">>), PyStr(<<"x">>), PyInt(<<"2">>)>>),
       PyList(<<PyInt(<<"1">>), PyNone, PyInt(<<"2">>)>>) >>

\* The invocations: each value as the location, as the rotation and as the
\* scale, with the other two left at their default, the empty list.
ComponentArgs ==
    [i \in 1..Len(Vectors) |-> Args(Vectors[i], PyList(<<>>), PyList(<<>>))]
    \o [i \in 1..Len(Vectors) |-> Args(PyList(<<>>), Vectors[i], PyList(<<>>))]
    \o [i \in 1..Len(Vectors) |-> Args(PyList(<<>>), PyList(<<>>), Vectors[i])]

\* The invocations whose params differ once validated.
SentArgs ==
    << Args(PyList(<<>>), PyList(<<>>), PyList(<<>>)),
       Args(Vectors[3], PyList(<<>>), PyList(<<>>)),
       Args(PyList(<<>>), Vectors[3], PyList(<<>>)),
       Args(PyList(<<>>), PyList(<<>>), Vectors[3]) >>

\* The params the invocations that pass validation send.
SentParams ==
    [i \in 1..Len(SentArgs) |-> PyDict(ValidateVectors(ComponentParams(SentArgs[i]), 1).obj)]

T_add_component == <<"add_component_to_blueprint">>

\* Replies whose result says whether the command succeeded, as the test
\* scripts expect them.
ScriptReplies ==
    << Reply(PyStr(T_success), Absent, Absent, Absent, PyDict(Put(<<>>, T_success, PyTrue))),
       Reply(PyStr(T_success), Absent, Absent, Absent, PyDict(Put(<<>>, T_success, PyFalse))) >>

InputSeq ==
    [i \in 1..Len(PeerReads) |->
        Input(PyStr(T_ping), PyNone, "ok", "ok", PeerReads[i].reads, PeerReads[i].end)]
    \o [i \in 1..Len(ConnectFailures) |->
        Input(PyStr(T_ping), PyNone, ConnectFailures[i], "ok", GoodReads, "close")]
    \o [i \in 1..Len(SendFailures) |->
        Input(PyStr(T_ping), PyNone, "ok", SendFailures[i], GoodReads, "close")]
    \o [i \in 1..Len(Params) |->
        Input(PyStr(T_ping), Params[i], "ok", "ok", GoodReads, "close")]
    \o [i \in 1..Len(StreamReads) |->
        Input(PyStr(T_ping), PyNone, "ok", "ok", StreamReads[i].reads, StreamReads[i].end)]
    \o [i \in 1..Len(LineReads) |->
        Input(PyStr(T_ping), PyNone, "ok", "ok", LineReads[i].reads, LineReads[i].end)]
    \o [i \in 1..Len(PaddedReads) |->
        [Input(PyStr(T_ping), PyNone, "ok", "ok", PaddedReads[i].reads, PaddedReads[i].end)
            EXCEPT !.pad = PaddedReads[i].pad]]
    \o [i \in 1..Len(SentParams) |->
        Input(PyStr(T_add_component), SentParams[i], "ok", "ok", GoodReads, "close")]
    \o [i \in 1..Len(ScriptReplies) |->
        Input(PyStr(T_ping), PyNone, "ok", "ok", Whole(Wire(ScriptReplies[i])), "close")]

NInputs == Len(InputSeq)

\* The inputs given to unreal_bridge.send_command, which returns what
\* json.loads gives without looking at the fields of the reply: of the
\* replies that differ only in their status fields, the first few.
BridgeInputs == {n \in 1..NInputs : n <= 2 * Len(StatusOpts) \/ n > 2 * Len(FieldReplies)}

\* The inputs given to the tools, which return what send_command gives: of
\* the replies that differ only in their status fields, the first few.
ToolInputs == BridgeInputs

\* The input named n; 0 names no input.
InputAt(n) == IF n = 0 THEN NoInput ELSE InputSeq[n]

(***************************************************************************)
(* Sockets.  socks is the table of all sockets the process has created, in *)
(* creation order; a socket is named by its index and 0 stands for None.   *)
(* st is "new" (created, not connected), "connected" or "closed"; cmds     *)
(* counts the command envelopes written to the socket; peer is "closed"    *)
(* once the other end has closed its side of the connection; addr is the   *)
(* host and port the socket connects to; raw is the bytes written to the   *)
(* socket that are not part of a command envelope.                         *)
(***************************************************************************)
\* The host and port both modules start with, and another one.
DefaultAddress == "127.0.0.1:55557"

Addresses == {DefaultAddress, "10.0.0.2:55557"}

NewSocket ==
    [st |-> "new", cmds |-> 0, peer |-> "open", addr |-> DefaultAddress, raw |-> <<>>]

\* The peer's side of the socket a call used, after the call r: a peer that
\* ends its answer by closing has closed the connection the command was
\* written to.
PeerAfter(r, end) ==
    IF r.used # 0 /\ r.wrote # <<>> /\ end = "close"
    THEN [r EXCEPT !.tbl[r.used].peer = "closed"]
    ELSE r

\* What a socket whose peer has closed gives the next call that uses it: the
\* write is accepted, and the read finds the end of the stream or, when the
\* peer's reset has arrived first, fails.
GoneEnds == {"close", "reset"}

\* The ways the socket sock can treat the next call: as GoneEnds say when its
\* peer has closed, and "" for a socket whose peer is there and for no socket.
Gone(sock, tbl) == IF sock # 0 /\ tbl[sock].peer = "closed" THEN GoneEnds ELSE {""}

GonePeer(in, gone) == [in EXCEPT !.reads = <<>>, !.end = gone, !.pad = 0]

\* sock.close(); closing a closed socket changes nothing.
Close(tbl, id) == IF id = 0 THEN tbl ELSE [tbl EXCEPT ![id].st = "closed"]

\* A successful sendall of one command envelope.
Wrote(tbl, id) == [tbl EXCEPT ![id].cmds = @ + 1]

(***************************************************************************)
(* UnrealConnection of unreal_mcp_server.py.  The object is the record c   *)
(* with the fields socket and connected.                                   *)
(***************************************************************************)
UnrealConnectionInit == [socket |-> 0, connected |-> FALSE]

\* connect as it would be if its except clause left the connected flag as it
\* was.
ConnectKeepingFlag(c, tbl, how) ==
    LET closed == IF c.socket # 0 THEN Close(tbl, c.socket) ELSE tbl
        id == Len(closed) + 1
        created == Append(closed, NewSocket)
    IN IF how = "ok"
       THEN [c |-> [socket |-> id, connected |-> TRUE],
             tbl |-> [created EXCEPT ![id].st = "connected"], ret |-> TRUE]
       ELSE [c |-> [socket |-> id, connected |-> c.connected], tbl |-> created, ret |-> FALSE]

\* UnrealConnection.connect; how is the outcome of socket.connect.
Connect(c, tbl, how) ==
    LET closed == IF c.socket # 0 THEN Close(tbl, c.socket) ELSE tbl
        id == Len(closed) + 1
        created == Append(closed, NewSocket)
    IN IF how = "ok"
       THEN [c |-> [socket |-> id, connected |-> TRUE],
             tbl |-> [created EXCEPT ![id].st = "connected"], ret |-> TRUE]
       ELSE [c |-> [socket |-> id, connected |-> FALSE], tbl |-> created, ret |-> FALSE]

\* What sock.close() can fail with; "" when it succeeds.
CloseErrors == {"", "EBADF"}

\* The classes a bare "except:" handles.
BareExcept == {"Exception", "BaseException"}

\* try: sock.close() / except <classes>: with close() failing with err: the
\* value the release returns or the exception that leaves it.
CloseGuarded(classes, err) ==
    IF err = "" \/ Catches(classes, SocketError(err))
    THEN Return(PyNone)
    ELSE Raise(SocketError(err))

\* disconnect as it would be if it closed the socket only when the
\* connection is marked connected.
DisconnectOnlyWhenConnected(c, tbl) ==
    [c |-> [socket |-> 0, connected |-> FALSE],
     tbl |-> IF c.connected THEN Close(tbl, c.socket) ELSE tbl]

\* UnrealConnection.disconnect
Disconnect(c, tbl) ==
    [c |-> [socket |-> 0, connected |-> FALSE], tbl |-> Close(tbl, c.socket)]

T_unknown == <<"Unknown Unreal error">>

\* Normalize as it would be if a response that is not an error were
\* unwrapped to its "result" field when it has one.
NormalizeUnwrappingResult(response) ==
    IF response.t # "dict" THEN Raise(NoAttribute(response, "get"))
    ELSE IF Get(response, T_status) = PyStr(T_error)
    THEN LET error_message == PyOr(Get(response, T_error),
                                   GetOr(response, T_message, PyStr(T_unknown)))
         IN IF ~HasKey(response, T_error)
            THEN Return(PyDict(Put(response.obj, T_error, error_message)))
            ELSE Return(response)
    ELSE IF Get(response, T_success) = PyFalse
    THEN LET error_message == PyOr(Get(response, T_error),
                                   GetOr(response, T_message, PyStr(T_unknown)))
         IN Return(PyDict(Put(Put(<<>>, T_status, PyStr(T_error)), T_error, error_message)))
    ELSE IF HasKey(response, T_result) THEN Return(Get(response, T_result))
    ELSE Return(response)

\* The two error formats of send_command: the value returned for a parsed
\* response, or the AttributeError of response.get on a non-dict.
Normalize(response) ==
    IF response.t # "dict" THEN Raise(NoAttribute(response, "get"))
    ELSE IF Get(response, T_status) = PyStr(T_error)
    THEN LET error_message == PyOr(Get(response, T_error),
                                   GetOr(response, T_message, PyStr(T_unknown)))
         IN IF ~HasKey(response, T_error)
            THEN Return(PyDict(Put(response.obj, T_error, error_message)))
            ELSE Return(response)
    ELSE IF Get(response, T_success) = PyFalse
    THEN LET error_message == PyOr(Get(response, T_error),
                                   GetOr(response, T_message, PyStr(T_unknown)))
         IN Return(PyDict(Put(Put(<<>>, T_status, PyStr(T_error)), T_error, error_message)))
    ELSE Return(response)

\* command_obj of send_command
CommandObj(command, params) ==
    PyDict(Put(Put(<<>>, T_type, command), T_params, PyOr(params, PyDict(<<>>))))

\* Acquire as it would be if a connection still marked connected were kept
\* for the command instead of being replaced.
AcquireKeepingConnection(c, tbl, how) ==
    IF c.connected
    THEN [c |-> c, tbl |-> tbl, ret |-> TRUE, attempts |-> 0]
    ELSE LET r == Connect(c, tbl, how)
         IN [c |-> r.c, tbl |-> r.tbl, ret |-> r.ret, attempts |-> 1]

\* Acquire as it would be if a handle left behind by a failed connect made
\* the following calls give up without connecting.
AcquireGivingUpAfterFailure(c, tbl, how) ==
    IF c.socket # 0 /\ ~c.connected
    THEN [c |-> c, tbl |-> tbl, ret |-> FALSE, attempts |-> 0]
    ELSE LET dropped == IF c.socket # 0
                        THEN [c |-> [socket |-> 0, connected |-> FALSE],
                              tbl |-> Close(tbl, c.socket)]
                        ELSE [c |-> c, tbl |-> tbl]
             r == Connect(dropped.c, dropped.tbl, how)
         IN [c |-> r.c, tbl |-> r.tbl, ret |-> r.ret, attempts |-> 1]

\* The first lines of send_command: close the socket still held, then connect.
Acquire(c, tbl, how) ==
    LET dropped == IF c.socket # 0
                   THEN [c |-> [socket |-> 0, connected |-> FALSE], tbl |-> Close(tbl, c.socket)]
                   ELSE [c |-> c, tbl |-> tbl]
        r == Connect(dropped.c, dropped.tbl, how)
    IN [c |-> r.c, tbl |-> r.tbl, ret |-> r.ret, attempts |-> 1]

\* json.loads(response_data.decode('utf-8')) gave loaded: the normalized
\* response, or the JSONDecodeError.
Loaded(wire, loaded) ==
    IF ~loaded.ok
    THEN [sent |-> TRUE, wrote |-> wire,
          out |-> Raise(Exc("JSONDecodeError", <<"Expecting value">>))]
    ELSE [sent |-> TRUE, wrote |-> wire, out |-> Normalize(loaded.v)]

\* response_data.decode('utf-8') gave text.
Decoded(wire, text) ==
    IF ~text.ok
    THEN [sent |-> TRUE, wrote |-> wire,
          out |-> Raise(Exc("UnicodeDecodeError", <<"'utf-8' codec can't decode">>))]
    ELSE Loaded(wire, JsonLoads(text.chars))

\* receive_full_response ended with received.
Received(wire, received) ==
    IF received = Blocked
    THEN [sent |-> TRUE, wrote |-> wire, out |-> Blocked]
    ELSE IF received.raised
    THEN [sent |-> TRUE, wrote |-> wire, out |-> received]
    ELSE IF received.v.t # "bytes"
    THEN [sent |-> TRUE, wrote |-> wire, out |-> Raise(NoAttribute(received.v, "decode"))]
    ELSE Decoded(wire, Utf8Decode(received.v.s))

\* json.dumps(command_obj) gave dumped: the sendall and what follows it.
Sending(in, dumped) ==
    IF ~dumped.ok
    THEN [sent |-> FALSE, wrote |-> <<>>,
          out |-> Raise(Exc("TypeError", <<"Object is not JSON serializable">>))]
    ELSE IF in.send # "ok"
    THEN [sent |-> FALSE, wrote |-> <<>>, out |-> Raise(SocketError(in.send))]
    ELSE Received(Utf8Encode(dumped.chars), ReceiveFullResponse(in.reads, in.end))

\* The try block of send_command up to the normalized response: whether the
\* command was written to the socket, the bytes of the command, and the value
\* or exception the block ends with.
Exchange(in) == Sending(in, JsonDumps(CommandObj(in.command, in.params)))

\* Exchange depends on the input only; it is tabulated over the inputs.
ExchangeOf == [n \in 1..NInputs |-> Exchange(InputSeq[n])]

\* The end of the try block of send_command: close the socket and return.
ReleaseAfterResponse(c, tbl) ==
    [c |-> [socket |-> 0, connected |-> FALSE], tbl |-> Close(tbl, c.socket)]

\* ReleaseAfterError as it would be if the except clause dropped the handle
\* without closing the socket.
ReleaseAfterErrorWithoutClose(c, tbl) ==
    [c |-> [socket |-> 0, connected |-> FALSE], tbl |-> tbl]

\* The except clause of send_command: reset the connection state.
ReleaseAfterError(c, tbl) ==
    [c |-> [socket |-> 0, connected |-> FALSE], tbl |-> Close(tbl, c.socket)]

\* The except clause of send_command, "except Exception as e": whether it
\* handles e, and the result it returns.
ErrorResult(e) ==
    IF Catches({"Exception"}, e)
    THEN [caught |-> TRUE,
          out |-> Return(PyDict(Put(Put(<<>>, T_status, PyStr(T_error)), T_error, PyStr(e.msg))))]
    ELSE [caught |-> FALSE, out |-> Raise(e)]

\* The return of send_command when connect() fails.
ConnectFailedResult == Return(PyNone)

\* The socket table once the try block has run on the connection a.
Sent(a, x) == IF x.sent THEN Wrote(a.tbl, a.c.socket) ELSE a.tbl

\* What a call that connected leaves behind and returns.
Outcome(a, x, released, out) ==
    [c |-> released.c, tbl |-> released.tbl, out |-> out, wrote |-> x.wrote,
     used |-> a.c.socket, attempts |-> a.attempts]

\* Handled as it would be if the except clause connected again after
\* releasing the socket.
HandledWithReconnect(a, x, h) ==
    Outcome([a EXCEPT !.attempts = @ + 1], x,
            [c |-> Connect(ReleaseAfterError(a.c, Sent(a, x)).c,
                           ReleaseAfterError(a.c, Sent(a, x)).tbl, "ok").c,
             tbl |-> Connect(ReleaseAfterError(a.c, Sent(a, x)).c,
                             ReleaseAfterError(a.c, Sent(a, x)).tbl, "ok").tbl],
            h.out)

\* The try block raised and the except clause gave h.
Handled(a, x, h) ==
    IF h.caught
    THEN Outcome(a, x, ReleaseAfterError(a.c, Sent(a, x)), h.out)
    ELSE Outcome(a, x, [c |-> a.c, tbl |-> Sent(a, x)], h.out)

\* send_command after its first lines gave the connection a, with x the
\* outcome of the try block.
Complete(a, x) ==
    IF ~a.ret
    THEN [c |-> a.c, tbl |-> a.tbl, out |-> ConnectFailedResult, wrote |-> <<>>,
          used |-> a.c.socket, attempts |-> a.attempts]
    ELSE IF x.out = Blocked
    THEN Outcome(a, x, [c |-> a.c, tbl |-> Sent(a, x)], Blocked)
    ELSE IF x.out.raised
    THEN Handled(a, x, ErrorResult(x.out.exc))
    ELSE Outcome(a, x, ReleaseAfterResponse(a.c, Sent(a, x)), x.out)

\* UnrealConnection.send_command(in.command, in.params) against the peer
\* behaviour of in, for the input in named n: the object and the socket table
\* afterwards, the outcome, the bytes written, the socket used and the connect
\* attempts made.
SendCommandCall(c, tbl, n) ==
    PeerAfter(Complete(Acquire(c, tbl, InputSeq[n].conn), ExchangeOf[n]), InputSeq[n].end)

(***************************************************************************)
(* UnrealConnection of unreal_mcp/server.py, the second copy of the class. *)
(* Its __init__, connect and disconnect are the statements of the first    *)
(* copy; receive_full_response and send_command are translated here.       *)
(***************************************************************************)
\* receive_full_response of server.py: json.loads(data.decode('utf-8')) is
\* inside the inner try, whose only clause is except json.JSONDecodeError.
RECURSIVE ServerReceiveLoop(_, _, _, _)
ServerReceiveLoop(reads, end, i, data) ==
    IF i > Len(reads)
    THEN CASE end = "close" ->
                IF data = <<>>
                THEN Raise(Exc("Exception", <<"Connection closed before receiving data">>))
                ELSE Return(PyNone)
           [] end = "silent" ->
                IF data # <<>> /\ Utf8Decode(data).ok /\ JsonLoads(Utf8Decode(data).chars).ok
                THEN Return(PyBytes(data))
                ELSE Raise(Exc("Exception", <<"Timeout receiving Unreal response">>))
           [] end = "stream" -> Blocked
           [] OTHER -> Raise(SocketError(end))
    ELSE IF ~Utf8Decode(data \o reads[i]).ok
    THEN Raise(Exc("UnicodeDecodeError", <<"'utf-8' codec can't decode">>))
    ELSE IF JsonLoads(Utf8Decode(data \o reads[i]).chars).ok
    THEN Return(PyBytes(data \o reads[i]))
    ELSE ServerReceiveLoop(reads, end, i + 1, data \o reads[i])

\* The two error formats of server.py's send_command: for status "error" the
\* error field is assigned whether or not the response has one.
ServerNormalize(response) ==
    IF response.t # "dict" THEN Raise(NoAttribute(response, "get"))
    ELSE IF Get(response, T_status) = PyStr(T_error)
    THEN Return(PyDict(Put(response.obj, T_error,
                           PyOr(Get(response, T_error),
                                GetOr(response, T_message, PyStr(T_unknown))))))
    ELSE IF Get(response, T_success) = PyFalse
    THEN Return(PyDict(Put(Put(<<>>, T_status, PyStr(T_error)), T_error,
                           PyOr(Get(response, T_error),
                                GetOr(response, T_message, PyStr(T_unknown))))))
    ELSE Return(response)

\* receive_full_response ended with received: decode, json.loads and the
\* normalization.
ServerReceived(wire, received) ==
    IF received = Blocked
    THEN [sent |-> TRUE, wrote |-> wire, out |-> Blocked]
    ELSE IF received.raised
    THEN [sent |-> TRUE, wrote |-> wire, out |-> received]
    ELSE IF received.v.t # "bytes"
    THEN [sent |-> TRUE, wrote |-> wire, out |-> Raise(NoAttribute(received.v, "decode"))]
    ELSE IF ~Utf8Decode(received.v.s).ok
    THEN [sent |-> TRUE, wrote |-> wire,
          out |-> Raise(Exc("UnicodeDecodeError", <<"'utf-8' codec can't decode">>))]
    ELSE IF ~JsonLoads(Utf8Decode(received.v.s).chars).ok
    THEN [sent |-> TRUE, wrote |-> wire,
          out |-> Raise(Exc("JSONDecodeError", <<"Expecting value">>))]
    ELSE [sent |-> TRUE, wrote |-> wire,
          out |-> ServerNormalize(JsonLoads(Utf8Decode(received.v.s).chars).v)]

\* The try block of server.py's send_command up to the normalized response.
ServerExchange(in) ==
    IF ~JsonDumps(CommandObj(in.command, in.params)).ok
    THEN [sent |-> FALSE, wrote |-> <<>>,
          out |-> Raise(Exc("TypeError", <<"Object is not JSON serializable">>))]
    ELSE IF in.send # "ok"
    THEN [sent |-> FALSE, wrote |-> <<>>, out |-> Raise(SocketError(in.send))]
    ELSE ServerReceived(Utf8Encode(JsonDumps(CommandObj(in.command, in.params)).chars),
                        ServerReceiveLoop(in.reads, in.end, 1, <<>>))

ServerExchangeOf == [n \in 1..NInputs |-> ServerExchange(InputSeq[n])]

\* server.py's UnrealConnection.send_command(in.command, in.params) for the
\* input named n; the first lines, the end of the try block and the except
\* clause are the statements of the first copy.
ServerSendCommandCall(c, tbl, n) ==
    PeerAfter(Complete(Acquire(c, tbl, InputSeq[n].conn), ServerExchangeOf[n]), InputSeq[n].end)

(***************************************************************************)
(* The tool layer of unreal_mcp_server.py.  g says whether the module's    *)
(* _unreal_connection is an object, and c is that object.                  *)
(***************************************************************************)
\* The byte get_unreal_connection writes to test the connection.
PingByte == <<"00">>

\* What sendall of the test byte can do.
Pings == {"ok", "brokenpipe"}

\* _unreal_connection = UnrealConnection() and connect() on it: r is what
\* connect gave; a failed connect leaves the module with None.
Connected(r) ==
    IF r.ret
    THEN [g |-> TRUE, c |-> r.c, tbl |-> r.tbl]
    ELSE [g |-> FALSE, c |-> UnrealConnectionInit, tbl |-> r.tbl]

\* The except clause of the connection test: disconnect the object, drop it
\* and connect a new one.
Reconnected(d, how) == Connected(Connect(UnrealConnectionInit, d.tbl, how))

\* get_unreal_connection(): the module's connection and the socket table
\* afterwards; the function returns the object when g is TRUE and None
\* otherwise.  how is what a connect does and ping what sendall of the test
\* byte does.  With self.socket None the test raises AttributeError, which
\* the except clause handles like a failed write.
GetUnrealConnection(g, c, tbl, how, ping) ==
    IF ~g
    THEN Connected(Connect(UnrealConnectionInit, tbl, how))
    ELSE IF c.socket # 0 /\ ping = "ok"
    THEN [g |-> TRUE, c |-> c, tbl |-> [tbl EXCEPT ![c.socket].raw = @ \o PingByte]]
    ELSE Reconnected(Disconnect(c, tbl), how)

\* The finally clause of server_lifespan as it would be if it dropped the
\* connection object without disconnecting it.
LifespanExitDropping(g, c, tbl) == [g |-> FALSE, c |-> c, tbl |-> tbl]

\* The finally clause of server_lifespan in unreal_mcp_server.py: "if
\* _unreal_connection: _unreal_connection.disconnect(); _unreal_connection =
\* None".  An UnrealConnection object is always true.
LifespanExit(g, c, tbl) ==
    IF g
    THEN [g |-> FALSE, c |-> Disconnect(c, tbl).c, tbl |-> Disconnect(c, tbl).tbl]
    ELSE [g |-> g, c |-> c, tbl |-> tbl]

T_connect_failed == <<"Failed to connect to Unreal Engine">>

T_no_reply == <<"No response from Unreal Engine">>

T_tool_error == <<"Error creating blueprint: ">>

\* {"success": False, "message": msg}
ToolFailure(msg) == Return(PyDict(Put(Put(<<>>, T_success, PyFalse), T_message, PyStr(msg))))

\* ToolResponse as it would be if the tool returned whatever send_command
\* returned, without the test "if not response".
ToolResponseUnchecked(prefix, out) ==
    IF out = Blocked
    THEN Blocked
    ELSE IF out.raised
    THEN IF Catches({"Exception"}, out.exc)
         THEN ToolFailure(prefix \o out.exc.msg)
         ELSE out
    ELSE out

\* What the tool returns once send_command has ended with out; prefix is
\* the text the tool puts before the message of an exception it caught.
ToolResponse(prefix, out) ==
    IF out = Blocked
    THEN Blocked
    ELSE IF out.raised
    THEN IF Catches({"Exception"}, out.exc)
         THEN ToolFailure(prefix \o out.exc.msg)
         ELSE out
    ELSE IF ~Truthy(out.v)
    THEN ToolFailure(T_no_reply)
    ELSE out

\* The tool after unreal.send_command ended as r on the connection u.
ToolSent(prefix, u, r) ==
    [g |-> u.g, c |-> r.c, tbl |-> r.tbl, out |-> ToolResponse(prefix, r.out), wrote |-> r.wrote,
     used |-> r.used, attempts |-> r.attempts, sent |-> TRUE]

\* The tool after get_unreal_connection ended as u, for the input named n.
ToolAfterGet(prefix, u, n) ==
    IF ~u.g
    THEN [g |-> u.g, c |-> u.c, tbl |-> u.tbl, out |-> ToolFailure(T_connect_failed),
          wrote |-> <<>>, used |-> 0, attempts |-> 0, sent |-> FALSE]
    ELSE ToolSent(prefix, u, SendCommandCall(u.c, u.tbl, n))

\* A tool such as create_blueprint, sending the command and parameters of
\* the input named n: get_unreal_connection(), then send_command on the
\* object it returned.
ToolCall(prefix, g, c, tbl, n, how, ping) ==
    ToolAfterGet(prefix, GetUnrealConnection(g, c, tbl, how, ping), n)

T_component_error == <<"Error adding component to blueprint: ">>

\* "Invalid {param_name} format. Must be a list of 3 float values."
InvalidFormat(name) == <<"Invalid ">> \o name \o <<" format. Must be a list of 3 float values.">>

\* The input whose command and params are those add_component_to_blueprint
\* sends once validation gave obj.
ComponentInput(obj) ==
    CHOOSE n \in 1..NInputs :
        InputSeq[n].command = PyStr(T_add_component) /\ InputSeq[n].params = PyDict(obj)

\* AfterValidation as it would be if the tool called get_unreal_connection
\* before it validated its arguments.
ContactBeforeValidation(v, g, c, tbl, how, ping) ==
    IF v.ok
    THEN [ToolCall(T_component_error, g, c, tbl, v.n, how, ping) EXCEPT !.sent = v.n]
    ELSE [g |-> GetUnrealConnection(g, c, tbl, how, ping).g,
          c |-> GetUnrealConnection(g, c, tbl, how, ping).c,
          tbl |-> GetUnrealConnection(g, c, tbl, how, ping).tbl,
          out |-> IF v.name # <<>>
                  THEN ToolFailure(InvalidFormat(v.name))
                  ELSE ToolFailure(T_component_error \o v.exc.msg),
          wrote |-> <<>>, used |-> 0, attempts |-> 0, sent |-> 0]

\* The tool when validation ended as v: the two returns of the loop and the
\* except clause end the invocation before get_unreal_connection is called.
AfterValidation(v, g, c, tbl, how, ping) ==
    IF v.ok
    THEN [ToolCall(T_component_error, g, c, tbl, v.n, how, ping) EXCEPT !.sent = v.n]
    ELSE [g |-> g, c |-> c, tbl |-> tbl,
          out |-> IF v.name # <<>>
                  THEN ToolFailure(InvalidFormat(v.name))
                  ELSE ToolFailure(T_component_error \o v.exc.msg),
          wrote |-> <<>>, used |-> 0, attempts |-> 0, sent |-> 0]

\* Validation depends on the arguments only; it is tabulated over the
\* invocations, with the input whose command and params the invocation has
\* for the engine, 0 when validation ended it.
WithInput(v) ==
    [ok |-> v.ok, name |-> v.name, exc |-> v.exc,
     n |-> IF v.ok THEN ComponentInput(v.obj) ELSE 0]

ValidatedOf ==
    [k \in DOMAIN ComponentArgs |->
        WithInput(ValidateVectors(ComponentParams(ComponentArgs[k]), 1))]

\* add_component_to_blueprint(ctx, **ComponentArgs[k]); sent names the input
\* the invocation has for the engine.
AddComponentCall(g, c, tbl, k, how, ping) ==
    AfterValidation(ValidatedOf[k], g, c, tbl, how, ping)

(***************************************************************************)
(* The test scripts of src/Python/scripts.  Their send_command sets no     *)
(* timeout on the socket, so a recv the peer never answers never returns.  *)
(***************************************************************************)
\* The receive loop of the scripts' send_command: the bytes joined when the
\* loop is left, or the exception that leaves it.
RECURSIVE ScriptReceive(_, _, _, _)
ScriptReceive(reads, end, i, data) ==
    IF i > Len(reads)
    THEN CASE end = "close" -> Return(PyBytes(data))
           [] end \in {"silent", "stream"} -> Blocked
           [] OTHER -> Raise(SocketError(end))
    ELSE IF ~Utf8Decode(data \o reads[i]).ok
    THEN Raise(Exc("UnicodeDecodeError", <<"'utf-8' codec can't decode">>))
    ELSE IF JsonLoads(Utf8Decode(data \o reads[i]).chars).ok
    THEN Return(PyBytes(data \o reads[i]))
    ELSE ScriptReceive(reads, end, i + 1, data \o reads[i])

\* response = json.loads(data.decode('utf-8')) after the loop ended with
\* received.
ScriptParsed(received) ==
    IF received = Blocked \/ received.raised
    THEN received
    ELSE IF ~Utf8Decode(received.v.s).ok
    THEN Raise(Exc("UnicodeDecodeError", <<"'utf-8' codec can't decode">>))
    ELSE IF ~JsonLoads(Utf8Decode(received.v.s).chars).ok
    THEN Raise(Exc("JSONDecodeError", <<"Expecting value">>))
    ELSE Return(JsonLoads(Utf8Decode(received.v.s).chars).v)

\* The statements between connect and close: json.dumps of
\* {"type": command, "params": params}, sendall, the receive loop and the
\* parse.
ScriptExchange(in) ==
    IF ~JsonDumps(PyDict(Put(Put(<<>>, T_type, in.command), T_params, in.params))).ok
    THEN [sent |-> FALSE, wrote |-> <<>>,
          out |-> Raise(Exc("TypeError", <<"Object is not JSON serializable">>))]
    ELSE IF in.send # "ok"
    THEN [sent |-> FALSE, wrote |-> <<>>, out |-> Raise(SocketError(in.send))]
    ELSE [sent |-> TRUE,
          wrote |-> Utf8Encode(JsonDumps(PyDict(Put(Put(<<>>, T_type, in.command),
                                                    T_params, in.params))).chars),
          out |-> ScriptParsed(ScriptReceive(in.reads, in.end, 1, <<>>))]

ScriptExchangeOf == [n \in 1..NInputs |-> ScriptExchange(InputSeq[n])]

\* "except Exception as e: return None" around the call.
ScriptResult(out) ==
    IF out # Blocked /\ out.raised /\ Catches({"Exception"}, out.exc) THEN Return(PyNone) ELSE out

\* test_cube.py, send_command(command, params), once sock.connect returned
\* on the socket id of tbl: the try block x and the finally clause, which a
\* call that never returns does not reach.
TestCubeConnected(tbl, id, x) ==
    [tbl |-> IF x.out = Blocked
             THEN (IF x.sent THEN Wrote(tbl, id) ELSE tbl)
             ELSE Close(IF x.sent THEN Wrote(tbl, id) ELSE tbl, id),
     out |-> ScriptResult(x.out), wrote |-> x.wrote, used |-> id, attempts |-> 1]

\* test_cube.py, send_command(command, params) for the input named n: the
\* socket is created and connected before the try block whose finally
\* clause closes it.
TestCubeSendCall(tbl, n) ==
    IF InputSeq[n].conn # "ok"
    THEN [tbl |-> Append(tbl, NewSocket),
          out |-> ScriptResult(Raise(SocketError(InputSeq[n].conn))), wrote |-> <<>>,
          used |-> Len(tbl) + 1, attempts |-> 1]
    ELSE PeerAfter(TestCubeConnected(Append(tbl, [NewSocket EXCEPT !.st = "connected"]),
                                     Len(tbl) + 1, ScriptExchangeOf[n]),
                   InputSeq[n].end)

(***************************************************************************)
(* The main functions of test_basic_blueprint.py and test_input_mapping.py *)
(* as the sequence of their statements on sockets, loops unrolled.  A      *)
(* statement has the line it is on and says whether it is inside the try   *)
(* block whose finally clause closes sock.  main is the position of the    *)
(* running script: at is the statement to execute next, sock the local     *)
(* variable sock, state "running", "returned" or "exited" (sys.exit(1)).   *)
(***************************************************************************)
Scripts == {"test_basic_blueprint", "test_input_mapping"}

NoMain == [at |-> 0, sock |-> 0, state |-> "none"]

MainInit == [at |-> 1, sock |-> 0, state |-> "running"]

Stmt(op, line, finally) == [op |-> op, line |-> line, finally |-> finally]

\* sock = socket.socket(...); sock.connect(...) on the lines line, line + 1.
ConnectAt(line, finally) == <<Stmt("connect", line, finally)>>

\* sock.close() and the two lines after it that make the next connection.
ReconnectAt(line, finally) == <<Stmt("close", line, finally)>> \o ConnectAt(line + 1, finally)

SendAt(line, finally) == <<Stmt("send", line, finally)>>

RECURSIVE Times(_, _)
Times(k, stmts) == IF k = 0 THEN <<>> ELSE stmts \o Times(k - 1, stmts)

\* test_basic_blueprint.py, main: the first connection is made before the
\* try block; line 156 is the finally clause reached from the end of the block.
TestBasicBlueprintMain ==
    ConnectAt(67, FALSE) \o SendAt(77, TRUE)
    \o ReconnectAt(101, TRUE) \o SendAt(105, TRUE)
    \o ReconnectAt(115, TRUE) \o SendAt(123, TRUE)
    \o ReconnectAt(133, TRUE) \o SendAt(145, TRUE)
    \o <<Stmt("close", 156, FALSE)>>

\* test_input_mapping.py, main as it would be if the loop of lines 238-284
\* did not begin with a new connection.
TestInputMappingMainReusing ==
    ConnectAt(89, FALSE) \o SendAt(97, FALSE) \o ReconnectAt(110, FALSE)
    \o Times(3, SendAt(140, FALSE) \o ReconnectAt(149, FALSE))
    \o Times(5, SendAt(72, FALSE) \o ReconnectAt(168, FALSE))
    \o SendAt(182, FALSE) \o ReconnectAt(192, FALSE) \o SendAt(211, FALSE)
    \o Times(3, SendAt(251, FALSE) \o ReconnectAt(261, FALSE) \o SendAt(277, FALSE))
    \o Times(4, ReconnectAt(289, FALSE) \o SendAt(307, FALSE))
    \o ReconnectAt(316, FALSE) \o SendAt(324, FALSE)
    \o ReconnectAt(333, FALSE) \o SendAt(345, FALSE)
    \o <<Stmt("close", 359, FALSE)>>

\* test_input_mapping.py, main: three variables (139-151), five input
\* mappings through setup_input_mapping (162-170), the BeginPlay nodes, an
\* event and a function node for three actions (238-284), four connections
\* between nodes (287-311), compile and spawn.  No finally clause.
TestInputMappingMain ==
    ConnectAt(89, FALSE) \o SendAt(97, FALSE) \o ReconnectAt(110, FALSE)
    \o Times(3, SendAt(140, FALSE) \o ReconnectAt(149, FALSE))
    \o Times(5, SendAt(72, FALSE) \o ReconnectAt(168, FALSE))
    \o SendAt(182, FALSE) \o ReconnectAt(192, FALSE) \o SendAt(211, FALSE)
    \o Times(3, ReconnectAt(240, FALSE) \o SendAt(251, FALSE)
                \o ReconnectAt(261, FALSE) \o SendAt(277, FALSE))
    \o Times(4, ReconnectAt(289, FALSE) \o SendAt(307, FALSE))
    \o ReconnectAt(316, FALSE) \o SendAt(324, FALSE)
    \o ReconnectAt(333, FALSE) \o SendAt(345, FALSE)
    \o <<Stmt("close", 359, FALSE)>>

MainOf(script) ==
    IF script = "test_basic_blueprint" THEN TestBasicBlueprintMain ELSE TestInputMappingMain

\* "if not response or response.get("status") != "success" or not
\* response.get("result", {}).get("success"): return" after a send_command:
\* "pass", "return", or "exit" when .get is called on a value that has none
\* and main's except clause calls sys.exit(1).
ResponseCheck(response) ==
    IF ~Truthy(response) THEN "return"
    ELSE IF response.t # "dict" THEN "exit"
    ELSE IF Get(response, T_status) # PyStr(T_success) THEN "return"
    ELSE IF GetOr(response, T_result, PyDict(<<>>)).t # "dict" THEN "exit"
    ELSE IF ~Truthy(Get(GetOr(response, T_result, PyDict(<<>>)), T_success)) THEN "return"
    ELSE "pass"

\* main left by a return ("returned") or through its except clause
\* ("exited") from the statement stmt: a finally clause around it closes sock.
Leave(tbl, m, stmt, state) ==
    [tbl |-> IF stmt.finally THEN Close(tbl, m.sock) ELSE tbl,
     main |-> [m EXCEPT !.state = state]]

\* The statement after the one at m.at; main returns after its last.
Advance(m, stmts) ==
    [m EXCEPT !.at = @ + 1, !.state = IF m.at + 1 > Len(stmts) THEN "returned" ELSE "running"]

\* sock = socket.socket(...); sock.connect(...): how is the outcome of connect.
MainConnect(tbl, m, stmts, how) ==
    IF how = "ok"
    THEN [tbl |-> Append(tbl, [NewSocket EXCEPT !.st = "connected"]),
          main |-> Advance([m EXCEPT !.sock = Len(tbl) + 1], stmts),
          out |-> Return(PyNone), wrote |-> <<>>, used |-> Len(tbl) + 1]
    ELSE Leave(Append(tbl, NewSocket), [m EXCEPT !.sock = Len(tbl) + 1], stmts[m.at], "exited")
         @@ [out |-> Raise(SocketError(how)), wrote |-> <<>>, used |-> Len(tbl) + 1]

\* response = send_command(sock, ...) with the exchange x, and the check of
\* the response.
MainSendCommand(tbl, m, stmts, x) ==
    IF x.out = Blocked
    THEN [tbl |-> IF x.sent THEN Wrote(tbl, m.sock) ELSE tbl, main |-> m,
          out |-> Blocked, wrote |-> x.wrote, used |-> m.sock]
    ELSE IF ScriptResult(x.out).raised
    THEN Leave(IF x.sent THEN Wrote(tbl, m.sock) ELSE tbl, m, stmts[m.at], "exited")
         @@ [out |-> x.out, wrote |-> x.wrote, used |-> m.sock]
    ELSE IF ResponseCheck(ScriptResult(x.out).v) = "pass"
    THEN [tbl |-> IF x.sent THEN Wrote(tbl, m.sock) ELSE tbl, main |-> Advance(m, stmts),
          out |-> ScriptResult(x.out), wrote |-> x.wrote, used |-> m.sock]
    ELSE Leave(IF x.sent THEN Wrote(tbl, m.sock) ELSE tbl, m, stmts[m.at],
               IF ResponseCheck(ScriptResult(x.out).v) = "exit" THEN "exited" ELSE "returned")
         @@ [out |-> ScriptResult(x.out), wrote |-> x.wrote, used |-> m.sock]

(***************************************************************************)
(* unreal_bridge.py.  The module's state is _connection, a socket index.   *)
(***************************************************************************)
\* initialize(host, port): the host and port the module is configured with
\* after the call.
Initialize(addr) == addr

\* _get_connection: the module connection afterwards and the socket
\* returned, or the exception raised.  how is the outcome of socket.connect.
GetConnection(sock, tbl, how, addr) ==
    IF sock # 0
    THEN [conn |-> sock, tbl |-> tbl, out |-> Return(PyNone), attempts |-> 0]
    ELSE LET id == Len(tbl) + 1
             created == Append(tbl, [NewSocket EXCEPT !.addr = addr])
         IN IF how = "ok"
            THEN [conn |-> id, tbl |-> [created EXCEPT ![id].st = "connected"],
                  out |-> Return(PyNone), attempts |-> 1]
            ELSE IF how = "timeout"
            THEN [conn |-> 0, tbl |-> created, attempts |-> 1,
                  out |-> Raise(Exc("ConnectionRefusedError",
                                    <<"Timeout connecting to host:port">>))]
            ELSE [conn |-> 0, tbl |-> created, attempts |-> 1, out |-> Raise(SocketError(how))]

\* close_connection
CloseConnection(sock, tbl) == [conn |-> 0, tbl |-> Close(tbl, sock)]

\* str.strip()
RECURSIVE StripEnd(_)
StripEnd(s) ==
    IF s # <<>> /\ s[Len(s)] \in Whitespace THEN StripEnd(SubSeq(s, 1, Len(s) - 1)) ELSE s

Strip(s) == LET t == StripEnd(s) IN SubSeq(t, SkipWs(t, 1), Len(t))

\* The receive loop of send_command: "line" with the buffer once the buffer
\* ends with a newline, "eof" when recv returns b'', "overflow" when the
\* buffer exceeds the limit, "raise" when recv raises.  buffer is what was
\* received of reads; pad bytes of spaces were received before it.
RECURSIVE BridgeReceive(_, _, _, _, _)
BridgeReceive(reads, end, i, buffer, pad) ==
    IF pad > BufferLimit
    THEN [k |-> "overflow", buffer |-> buffer, exc |-> NoExc]
    ELSE IF i > Len(reads)
    THEN IF end = "close"
         THEN [k |-> "eof", buffer |-> buffer, exc |-> NoExc]
         ELSE IF end = "stream"
         THEN [k |-> "overflow", buffer |-> buffer, exc |-> NoExc]
         ELSE [k |-> "raise", buffer |-> buffer,
               exc |-> SocketError(IF end = "silent" THEN "timeout" ELSE end)]
    ELSE LET joined == buffer \o reads[i]
         IN IF joined[Len(joined)] = "\n"
            THEN [k |-> "line", buffer |-> joined, exc |-> NoExc]
            ELSE IF pad + Len(joined) > BufferLimit
            THEN [k |-> "overflow", buffer |-> joined, exc |-> NoExc]
            ELSE BridgeReceive(reads, end, i + 1, joined, pad)

NetworkErrors == {"ConnectionRefusedError", "ConnectionResetError", "BrokenPipeError",
                  "socket.timeout"}

BridgeError(prefix, e) == Return(PyDict(Put(<<>>, T_error, PyStr(<<prefix>> \o e.msg))))

\* BridgeHandler without the last clause, "except Exception".
BridgeHandlerWithoutCatchAll(e) ==
    IF Catches(NetworkErrors, e)
    THEN [caught |-> TRUE, close |-> TRUE, out |-> BridgeError("Network error: ", e)]
    ELSE IF Catches({"JSONDecodeError"}, e)
    THEN [caught |-> TRUE, close |-> FALSE, out |-> BridgeError("JSON decode error: ", e)]
    ELSE [caught |-> FALSE, close |-> FALSE, out |-> Raise(e)]

\* The three except clauses of send_command, in order: whether one of them
\* handles e, whether it calls close_connection, and the dict it returns.
BridgeHandler(e) ==
    IF Catches(NetworkErrors, e)
    THEN [caught |-> TRUE, close |-> TRUE, out |-> BridgeError("Network error: ", e)]
    ELSE IF Catches({"JSONDecodeError"}, e)
    THEN [caught |-> TRUE, close |-> FALSE, out |-> BridgeError("JSON decode error: ", e)]
    ELSE IF Catches({"Exception"}, e)
    THEN [caught |-> TRUE, close |-> TRUE, out |-> BridgeError("Unexpected error: ", e)]
    ELSE [caught |-> FALSE, close |-> FALSE, out |-> Raise(e)]

\* json.loads(response_str) gave loaded.
BridgeLoaded(wire, loaded) ==
    IF ~loaded.ok
    THEN [sent |-> TRUE, wrote |-> wire, closed |-> FALSE,
          out |-> Raise(Exc("JSONDecodeError", <<"Expecting value">>))]
    ELSE [sent |-> TRUE, wrote |-> wire, closed |-> FALSE, out |-> Return(loaded.v)]

\* "if response_str:" on the stripped line.
BridgeLine(wire, response_str) ==
    IF response_str = <<>>
    THEN [sent |-> TRUE, wrote |-> wire, closed |-> FALSE, out |-> Return(PyNone)]
    ELSE BridgeLoaded(wire, JsonLoads(response_str))

\* buffer.decode('utf-8') gave text.
BridgeDecoded(wire, text) ==
    IF ~text.ok
    THEN [sent |-> TRUE, wrote |-> wire, closed |-> FALSE,
          out |-> Raise(Exc("UnicodeDecodeError", <<"'utf-8' codec can't decode">>))]
    ELSE BridgeLine(wire, Strip(text.chars))

\* The receive loop ended with got.
BridgeReceived(wire, got) ==
    IF got.k = "raise"
    THEN [sent |-> TRUE, wrote |-> wire, closed |-> FALSE, out |-> Raise(got.exc)]
    ELSE IF got.k \in {"eof", "overflow"}
    THEN [sent |-> TRUE, wrote |-> wire, closed |-> TRUE, out |-> Return(PyNone)]
    ELSE BridgeDecoded(wire, Utf8Decode(got.buffer))

\* json.dumps(command) gave dumped: the sendall and what follows it.
BridgeSending(in, dumped) ==
    IF ~dumped.ok
    THEN [sent |-> FALSE, wrote |-> <<>>, closed |-> FALSE,
          out |-> Raise(Exc("TypeError", <<"Object is not JSON serializable">>))]
    ELSE IF in.send # "ok"
    THEN [sent |-> FALSE, wrote |-> <<>>, closed |-> FALSE, out |-> Raise(SocketError(in.send))]
    ELSE BridgeReceived(Utf8Encode(dumped.chars \o <<"\n">>),
                        BridgeReceive(in.reads, in.end, 1, <<>>, in.pad))

\* The try block of send_command after _get_connection returned, for the
\* command {"type": in.command, "params": in.params or {}}: whether the
\* command was written, whether close_connection was called, and the value
\* returned or the exception raised.
BridgeExchange(in) == BridgeSending(in, JsonDumps(CommandObj(in.command, in.params)))

\* BridgeExchange depends on the input only; it is tabulated over the inputs.
BridgeExchangeOf == [n \in 1..NInputs |-> BridgeExchange(InputSeq[n])]

\* close_connection if the except clause calls it.
BridgeCleanup(h, at) == IF h.close THEN CloseConnection(at.conn, at.tbl) ELSE at

\* What a call leaves behind and returns.
BridgeOutcome(at, out, wrote, used, n) ==
    [conn |-> at.conn, tbl |-> at.tbl, out |-> out, wrote |-> wrote, used |-> used,
     attempts |-> n]

\* The module connection and the socket table once the try block has run on
\* the socket g.conn.
BridgeInner(g, x) ==
    IF x.closed
    THEN CloseConnection(g.conn, IF x.sent THEN Wrote(g.tbl, g.conn) ELSE g.tbl)
    ELSE [conn |-> g.conn, tbl |-> IF x.sent THEN Wrote(g.tbl, g.conn) ELSE g.tbl]

\* An exception e left the try block: the except clauses.
BridgeHandled(h, at, wrote, used, n) ==
    BridgeOutcome(BridgeCleanup(h, at), h.out, wrote, used, n)

\* send_command with g the outcome of _get_connection and x the outcome of
\* the rest of the try block.
BridgeComplete(g, x) ==
    IF g.out.raised
    THEN BridgeHandled(BridgeHandler(g.out.exc), [conn |-> g.conn, tbl |-> g.tbl], <<>>, 0,
                       g.attempts)
    ELSE IF x.out.raised
    THEN BridgeHandled(BridgeHandler(x.out.exc), BridgeInner(g, x), x.wrote, g.conn,
                       g.attempts)
    ELSE BridgeOutcome(BridgeInner(g, x), x.out, x.wrote, g.conn, g.attempts)

\* unreal_bridge.send_command({"type": in.command, "params": in.params or {}}),
\* as BridgeConnection.send_command calls it, against the peer behaviour of
\* in, for the input in named n.
BridgeSendCall(sock, tbl, addr, n, gone) ==
    IF gone # ""
    THEN BridgeComplete(GetConnection(sock, tbl, InputSeq[n].conn, addr),
                        BridgeExchange(GonePeer(InputSeq[n], gone)))
    ELSE PeerAfter(BridgeComplete(GetConnection(sock, tbl, InputSeq[n].conn, addr),
                                  BridgeExchangeOf[n]),
                   InputSeq[n].end)

MaxCallers == 2

\* The callers that share the connection object of the process.
Callers == 1..MaxCallers

\* A caller with no send_command in progress.
Idle == [pc |-> "idle", sock |-> 0]

vars ==
    <<program, socks, unreal_connection, unreal_global, bridge_connection, bridge_host, calls,
      attempts, last, inflight, main>>

Programs ==
    {"unreal_mcp_server", "unreal_bridge", "tools", "server", "test_cube"} \cup Scripts

Last(op, in, out, wrote, used) ==
    [op |-> op, in |-> in, out |-> out, wrote |-> wrote, used |-> used, gone |-> "",
     args |-> NoArgs]

Init ==
    /\ program \in Programs
    /\ socks = <<>>
    /\ unreal_connection = UnrealConnectionInit
    /\ unreal_global = FALSE
    /\ bridge_connection = 0
    /\ bridge_host = DefaultAddress
    /\ calls = 0
    /\ attempts = 0
    /\ last = Last("init", 0, Return(PyNone), <<>>, 0)
    /\ inflight = [t \in Callers |-> Idle]
    /\ main = IF program \in Scripts THEN MainInit ELSE NoMain

\* unreal_mcp_server: UnrealConnection.send_command
SendCommand(n) ==
    /\ program = "unreal_mcp_server"
    /\ last.op # "blocked"
    /\ calls < MaxCalls
    /\ Len(socks) < MaxSockets
    /\ \E r \in {SendCommandCall(unreal_connection, socks, n)} :
          /\ unreal_connection' = r.c
          /\ socks' = r.tbl
          /\ calls' = calls + 1
          /\ attempts' = attempts + r.attempts
          /\ last' = Last(IF r.out = Blocked THEN "blocked" ELSE "send_command", n, r.out,
                          r.wrote, r.used)
    /\ UNCHANGED <<program, main, unreal_global, bridge_host, bridge_connection, inflight>>

\* unreal_mcp_server: UnrealConnection.connect, as get_unreal_connection calls it
DoConnect(how) ==
    /\ program = "unreal_mcp_server"
    /\ last.op # "blocked"
    /\ Len(socks) < MaxSockets
    /\ LET r == Connect(unreal_connection, socks, how)
       IN /\ unreal_connection' = r.c
          /\ socks' = r.tbl
          /\ last' = Last("connect", 0, Return(IF r.ret THEN PyTrue ELSE PyFalse), <<>>,
                          r.c.socket)
    /\ UNCHANGED <<program, main, unreal_global, bridge_host, bridge_connection, calls, attempts,
                   inflight>>

\* unreal_mcp_server: UnrealConnection.disconnect
DoDisconnect ==
    /\ program = "unreal_mcp_server"
    /\ last.op # "blocked"
    /\ \E err \in CloseErrors :
          LET r == Disconnect(unreal_connection, socks)
          IN /\ unreal_connection' = r.c
             /\ socks' = r.tbl
             /\ last' = Last("disconnect", 0,
                             IF unreal_connection.socket # 0
                             THEN CloseGuarded(BareExcept, err)
                             ELSE Return(PyNone),
                             <<>>, unreal_connection.socket)
    /\ UNCHANGED <<program, main, unreal_global, bridge_host, bridge_connection, calls, attempts,
                   inflight>>

\* tools: get_unreal_connection() as server_lifespan calls it at startup,
\* with no connection object yet.
DoGetUnrealConnection(how) ==
    /\ program = "tools"
    /\ last.op \notin {"blocked", "server_lifespan"}
    /\ ~unreal_global
    /\ Len(socks) < MaxSockets
    /\ \E u \in {GetUnrealConnection(unreal_global, unreal_connection, socks, how, "ok")} :
          /\ unreal_global' = u.g
          /\ unreal_connection' = u.c
          /\ socks' = u.tbl
          /\ last' = Last("get_unreal_connection", 0,
                          Return(IF u.g THEN PyTrue ELSE PyNone), <<>>, u.c.socket)
    /\ UNCHANGED <<program, main, bridge_host, bridge_connection, calls, attempts, inflight>>

\* tools: one tool invocation
Tool(n, how, ping) ==
    /\ program = "tools"
    /\ last.op \notin {"blocked", "server_lifespan"}
    /\ Len(socks) < MaxSockets
    /\ \E r \in {ToolCall(T_tool_error, unreal_global, unreal_connection, socks, n, how,
                          ping)} :
          /\ unreal_global' = r.g
          /\ unreal_connection' = r.c
          /\ socks' = r.tbl
          /\ attempts' = attempts + r.attempts
          /\ last' = Last(IF r.out = Blocked THEN "blocked" ELSE "tool", n, r.out, r.wrote,
                          r.used)
    /\ UNCHANGED <<program, main, bridge_host, bridge_connection, calls, inflight>>

\* unreal_mcp/server.py: UnrealConnection.send_command
ServerSendCommand(n) ==
    /\ program = "server"
    /\ last.op # "blocked"
    /\ Len(socks) < MaxSockets
    /\ \E r \in {ServerSendCommandCall(unreal_connection, socks, n)} :
          /\ unreal_connection' = r.c
          /\ socks' = r.tbl
          /\ attempts' = attempts + r.attempts
          /\ last' = Last(IF r.out = Blocked THEN "blocked" ELSE "server.send_command", n,
                          r.out, r.wrote, r.used)
    /\ UNCHANGED <<program, main, unreal_global, bridge_host, bridge_connection, calls, inflight>>

\* scripts/actors/test_cube.py: send_command
TestCubeSendCommand(n) ==
    /\ program = "test_cube"
    /\ last.op # "blocked"
    /\ Len(socks) < MaxSockets
    /\ \E r \in {TestCubeSendCall(socks, n)} :
          /\ socks' = r.tbl
          /\ attempts' = attempts + r.attempts
          /\ last' = Last(IF r.out = Blocked THEN "blocked" ELSE "test_cube.send_command", n,
                          r.out, r.wrote, r.used)
    /\ UNCHANGED <<program, main, unreal_connection, unreal_global, bridge_host, bridge_connection,
                   calls, inflight>>

\* The statement main executes next.
MainAt(op) ==
    /\ program \in Scripts
    /\ main.state = "running"
    /\ last.op # "blocked"
    /\ MainOf(program)[main.at].op = op

\* scripts: sock = socket.socket(...); sock.connect(("127.0.0.1", 55557))
MainConnects(how) ==
    /\ MainAt("connect")
    /\ \E r \in {MainConnect(socks, main, MainOf(program), how)} :
          /\ socks' = r.tbl
          /\ main' = r.main
          /\ last' = Last("main.connect", 0, r.out, r.wrote, r.used)
    /\ attempts' = attempts + 1
    /\ UNCHANGED <<program, unreal_connection, unreal_global, bridge_host, bridge_connection,
                   calls, inflight>>

\* scripts: response = send_command(sock, command, params) and its check
MainSends(n) ==
    /\ MainAt("send")
    /\ InputSeq[n].conn = "ok"
    /\ \E r \in {PeerAfter(MainSendCommand(socks, main, MainOf(program), ScriptExchangeOf[n]),
                           InputSeq[n].end)} :
          /\ socks' = r.tbl
          /\ main' = r.main
          /\ last' = Last(IF r.out = Blocked THEN "blocked" ELSE "main.send_command", n, r.out,
                          r.wrote, r.used)
    /\ UNCHANGED <<program, unreal_connection, unreal_global, bridge_host, bridge_connection,
                   calls, attempts, inflight>>

\* scripts: sock.close()
MainCloses ==
    /\ MainAt("close")
    /\ socks' = Close(socks, main.sock)
    /\ main' = Advance(main, MainOf(program))
    /\ last' = Last("main.close", 0, Return(PyNone), <<>>, main.sock)
    /\ UNCHANGED <<program, unreal_connection, unreal_global, bridge_host, bridge_connection,
                   calls, attempts, inflight>>

\* tools: server_lifespan of unreal_mcp_server.py leaves its yield; its
\* startup half is DoGetUnrealConnection.
ServerLifespanExit ==
    /\ program = "tools"
    /\ last.op \notin {"blocked", "server_lifespan"}
    /\ \E r \in {LifespanExit(unreal_global, unreal_connection, socks)} :
          /\ unreal_global' = r.g
          /\ unreal_connection' = r.c
          /\ socks' = r.tbl
    /\ last' = Last("server_lifespan", 0, Return(PyNone), <<>>,
                    IF unreal_global THEN unreal_connection.socket ELSE 0)
    /\ UNCHANGED <<program, main, bridge_host, bridge_connection, calls, attempts, inflight>>

\* unreal_bridge: server_lifespan of unreal_mcp/server.py leaves its yield.
\* connection is the BridgeConnection adapter get_unreal_connection returned
\* at startup, an object that is always true, and its disconnect is
\* close_connection of the bridge.
BridgeLifespanExit ==
    /\ program = "unreal_bridge"
    /\ last.op # "server_lifespan"
    /\ \E r \in {CloseConnection(bridge_connection, socks)} :
          /\ bridge_connection' = r.conn
          /\ socks' = r.tbl
    /\ last' = Last("server_lifespan", 0, Return(PyNone), <<>>, bridge_connection)
    /\ UNCHANGED <<program, main, unreal_global, bridge_host, unreal_connection, calls, attempts,
                   inflight>>

\* tools: add_component_to_blueprint with the k-th arguments
AddComponentToBlueprint(k, how, ping) ==
    /\ program = "tools"
    /\ last.op \notin {"blocked", "server_lifespan"}
    /\ Len(socks) < MaxSockets
    /\ \E r \in {AddComponentCall(unreal_global, unreal_connection, socks, k, how, ping)} :
          /\ unreal_global' = r.g
          /\ unreal_connection' = r.c
          /\ socks' = r.tbl
          /\ attempts' = attempts + r.attempts
          /\ last' = [Last(IF r.out = Blocked THEN "blocked" ELSE "add_component_to_blueprint",
                           r.sent, r.out, r.wrote, r.used)
                         EXCEPT !.args = ComponentArgs[k]]
    /\ UNCHANGED <<program, main, bridge_host, bridge_connection, calls, inflight>>

\* unreal_bridge: send_command, called as BridgeConnection.send_command does
BridgeSendCommand(n) ==
    /\ program = "unreal_bridge"
    /\ last.op # "server_lifespan"
    /\ calls < MaxCalls
    /\ Len(socks) < MaxSockets
    /\ \E gone \in Gone(bridge_connection, socks) :
          \E r \in {BridgeSendCall(bridge_connection, socks, bridge_host, n, gone)} :
             /\ bridge_connection' = r.conn
             /\ socks' = r.tbl
             /\ calls' = calls + 1
             /\ attempts' = attempts + r.attempts
             /\ last' = [Last("send_command", n, r.out, r.wrote, r.used) EXCEPT !.gone = gone]
    /\ UNCHANGED <<program, main, unreal_global, bridge_host, unreal_connection, inflight>>

\* unreal_bridge: initialize(host, port).  The module is reconfigured while
\* it has its first address and not twice in a row, which bounds the
\* behaviours; initialize itself has no condition.
BridgeInitialize(addr) ==
    /\ program = "unreal_bridge"
    /\ last.op # "server_lifespan"
    /\ bridge_host = DefaultAddress
    /\ last.op # "initialize"
    /\ bridge_host' = Initialize(addr)
    /\ last' = Last("initialize", 0, Return(PyNone), <<>>, bridge_connection)
    /\ UNCHANGED <<program, main, socks, unreal_connection, unreal_global, bridge_connection,
                   calls, attempts, inflight>>

\* unreal_bridge: close_connection
BridgeClose ==
    /\ program = "unreal_bridge"
    /\ last.op # "server_lifespan"
    /\ \E err \in CloseErrors :
          LET r == CloseConnection(bridge_connection, socks)
          IN /\ bridge_connection' = r.conn
             /\ socks' = r.tbl
             /\ last' = Last("close_connection", 0,
                             IF bridge_connection # 0
                             THEN CloseGuarded({"Exception"}, err)
                             ELSE Return(PyNone),
                             <<>>, bridge_connection)
    /\ UNCHANGED <<program, main, unreal_global, bridge_host, unreal_connection, calls, attempts,
                   inflight>>

Next ==
    \/ \E n \in 1..NInputs : SendCommand(n)
    \/ \E how \in {"ok", "refused", "timeout"} : DoConnect(how)
    \/ DoDisconnect
    \/ \E n \in BridgeInputs : BridgeSendCommand(n)
    \/ \E addr \in Addresses : BridgeInitialize(addr)
    \/ BridgeClose
    \/ \E how \in {"ok", "refused"} : DoGetUnrealConnection(how)
    \/ \E n \in ToolInputs, how \in {"ok", "refused"}, ping \in Pings : Tool(n, how, ping)
    \/ \E k \in DOMAIN ComponentArgs, how \in {"ok", "refused"}, ping \in Pings :
          AddComponentToBlueprint(k, how, ping)
    \/ \E n \in 1..NInputs : ServerSendCommand(n)
    \/ \E n \in BridgeInputs : TestCubeSendCommand(n)
    \/ \E how \in {"ok", "refused"} : MainConnects(how)
    \/ \E n \in BridgeInputs : MainSends(n)
    \/ MainCloses
    \/ ServerLifespanExit
    \/ BridgeLifespanExit

Spec == Init /\ [][Next]_vars

(***************************************************************************)
(* Concurrent callers.  Neither program takes a lock around send_command,  *)
(* so when several callers share the connection object their calls         *)
(* interleave.  Each call is cut into three steps at its blocking socket   *)
(* operations: connect, sendall, and the receive together with the return; *)
(* every interleaving of these steps is an interleaving of the program.    *)
(***************************************************************************)
\* UnrealConnection.send_command of caller t up to the return of connect().
ConcurrentAcquire(t, how) ==
    /\ program = "unreal_mcp_server"
    /\ inflight[t].pc = "idle"
    /\ calls < MaxCalls
    /\ Len(socks) < MaxSockets
    /\ \E r \in {Acquire(unreal_connection, socks, how)} :
          /\ unreal_connection' = r.c
          /\ socks' = r.tbl
          /\ attempts' = attempts + r.attempts
          /\ inflight' = [inflight EXCEPT
                             ![t] = IF r.ret THEN [pc |-> "connected", sock |-> r.c.socket]
                                    ELSE Idle]
    /\ calls' = calls + 1
    /\ UNCHANGED <<program, main, unreal_global, bridge_host, bridge_connection, last>>

\* self.socket.sendall of caller t, on the socket self.socket holds now; on
\* None or on a socket that is not connected it raises and the except clause
\* of send_command runs.
ConcurrentSend(t) ==
    /\ program = "unreal_mcp_server"
    /\ inflight[t].pc = "connected"
    /\ IF unreal_connection.socket # 0 /\ socks[unreal_connection.socket].st = "connected"
       THEN /\ socks' = Wrote(socks, unreal_connection.socket)
            /\ inflight' = [inflight EXCEPT ![t].pc = "sent"]
            /\ UNCHANGED unreal_connection
       ELSE \E r \in {ReleaseAfterError(unreal_connection, socks)} :
               /\ unreal_connection' = r.c
               /\ socks' = r.tbl
               /\ inflight' = [inflight EXCEPT ![t] = Idle]
    /\ UNCHANGED <<program, main, unreal_global, bridge_host, bridge_connection, calls, attempts, last>>

\* The receive of caller t and the end of its send_command: with a response
\* or with an exception, the socket self.socket holds now is closed and the
\* handle cleared.
ConcurrentFinish(t) ==
    /\ program = "unreal_mcp_server"
    /\ inflight[t].pc = "sent"
    /\ \E r \in {ReleaseAfterResponse(unreal_connection, socks)} :
          /\ unreal_connection' = r.c
          /\ socks' = r.tbl
    /\ inflight' = [inflight EXCEPT ![t] = Idle]
    /\ UNCHANGED <<program, main, unreal_global, bridge_host, bridge_connection, calls, attempts, last>>

\* unreal_bridge.send_command of caller t up to the return of
\* _get_connection; when it raises, the except clause runs.
ConcurrentGetConnection(t, how) ==
    /\ program = "unreal_bridge"
    /\ inflight[t].pc = "idle"
    /\ calls < MaxCalls
    /\ Len(socks) < MaxSockets
    /\ \E g \in {GetConnection(bridge_connection, socks, how, bridge_host)} :
          /\ bridge_connection' = g.conn
          /\ socks' = g.tbl
          /\ attempts' = attempts + g.attempts
          /\ inflight' = [inflight EXCEPT
                             ![t] = IF g.out.raised THEN Idle
                                    ELSE [pc |-> "connected", sock |-> g.conn]]
    /\ calls' = calls + 1
    /\ UNCHANGED <<program, main, unreal_global, bridge_host, unreal_connection, last>>

\* sock.sendall of caller t on the socket _get_connection returned to it; on
\* a closed socket it raises and the last except clause calls
\* close_connection.
ConcurrentBridgeSend(t) ==
    /\ program = "unreal_bridge"
    /\ inflight[t].pc = "connected"
    /\ IF socks[inflight[t].sock].st = "connected"
       THEN /\ socks' = Wrote(socks, inflight[t].sock)
            /\ inflight' = [inflight EXCEPT ![t].pc = "sent"]
            /\ UNCHANGED bridge_connection
       ELSE \E r \in {CloseConnection(bridge_connection, socks)} :
               /\ bridge_connection' = r.conn
               /\ socks' = r.tbl
               /\ inflight' = [inflight EXCEPT ![t] = Idle]
    /\ UNCHANGED <<program, main, unreal_global, bridge_host, unreal_connection, calls, attempts, last>>

\* The receive loop of caller t and the end of its send_command: a line is
\* returned with the module connection kept; an empty read, or a recv that
\* raises on a closed socket, ends in close_connection.
ConcurrentBridgeFinish(t, end) ==
    /\ program = "unreal_bridge"
    /\ inflight[t].pc = "sent"
    /\ IF socks[inflight[t].sock].st = "connected" /\ end = "line"
       THEN UNCHANGED <<bridge_connection, socks>>
       ELSE \E r \in {CloseConnection(bridge_connection, socks)} :
               /\ bridge_connection' = r.conn
               /\ socks' = r.tbl
    /\ inflight' = [inflight EXCEPT ![t] = Idle]
    /\ UNCHANGED <<program, main, unreal_global, bridge_host, unreal_connection, calls, attempts, last>>

NextConcurrent ==
    \/ \E t \in Callers, how \in {"ok", "refused"} : ConcurrentAcquire(t, how)
    \/ \E t \in Callers : ConcurrentSend(t)
    \/ \E t \in Callers : ConcurrentFinish(t)
    \/ \E t \in Callers, how \in {"ok", "refused"} : ConcurrentGetConnection(t, how)
    \/ \E t \in Callers : ConcurrentBridgeSend(t)
    \/ \E t \in Callers, end \in {"line", "eof"} : ConcurrentBridgeFinish(t, end)

SpecConcurrent == Init /\ [][NextConcurrent]_vars

(***************************************************************************)
(* Properties.                                                             *)
(***************************************************************************)
\* The last operation was UnrealConnection.send_command.
UnrealSent == program = "unreal_mcp_server" /\ last.op = "send_command"

\* The last operation was unreal_bridge.send_command.
BridgeSent == program = "unreal_bridge" /\ last.op = "send_command"

\* The input of the operation recorded in l with the peer the call met: the
\* peer of the input, or a socket whose peer had closed before the call.
Met(l) == IF l.gone = "" THEN InputAt(l.in) ELSE GonePeer(InputAt(l.in), l.gone)

LastInput == Met(last)

\* C1: in unreal_mcp_server every send_command call makes exactly one connect
\* attempt on a socket it creates for the call, after closing every socket
\* created before, and no socket ever carries more than one command.
C1_ConnectionNonReuse ==
    program = "unreal_mcp_server" =>
        /\ attempts = calls
        /\ \A i \in DOMAIN socks : socks[i].cmds <= 1
        /\ last.op = "send_command" =>
              /\ last.used = Len(socks)
              /\ \A i \in 1..(Len(socks) - 1) : socks[i].st = "closed"

\* Two commands have been sent, each on a socket of its own, the first of
\* them on a call that found a connected socket still held.
C1_Witness ==
    /\ program = "unreal_mcp_server"
    /\ calls = 2
    /\ Len(socks) = 3
    /\ socks[1].cmds = 0 /\ socks[2].cmds = 1 /\ socks[3].cmds = 1

\* C2: when UnrealConnection.send_command has returned, the socket of the
\* call is closed, self.socket is None and self.connected is False.
C2_GuaranteedRelease ==
    UnrealSent =>
        /\ unreal_connection.socket = 0
        /\ ~unreal_connection.connected
        /\ last.used # 0 => socks[last.used].st = "closed"

\* C3: when unreal_bridge.send_command has returned, the module connection
\* is closed and cleared.
C3_BridgeConnectionDiscarded ==
    BridgeSent =>
        /\ bridge_connection = 0
        /\ last.used # 0 => socks[last.used].st = "closed"

\* C4: neither UnrealConnection.send_command nor unreal_bridge.send_command
\* lets an exception propagate; every call returns a value.
C4_NeverRaises == last.op = "send_command" => ~last.out.raised

\* unreal_bridge.send_command was given parameters json.dumps cannot
\* serialize and returned an error dict.
C4_Witness ==
    /\ BridgeSent
    /\ ~Serializable(LastInput.params)
    /\ last.out.v.t = "dict"
    /\ HasKey(last.out.v, T_error)

\* The call of input in fails: connect, sendall or the read fails, or the
\* peer closes before a complete message is received.
CallFails(in) ==
    \/ in.conn # "ok"
    \/ in.send # "ok"
    \/ ReceiveFullResponse(in.reads, in.end).raised
    \/ ReceiveFullResponse(in.reads, in.end).v.t # "bytes"

\* v is {"status": "error", "error": <str>, ...}.
ErrorShaped(v) ==
    /\ v.t = "dict"
    /\ Get(v, T_status) = PyStr(T_error)
    /\ Get(v, T_error).t = "str"

\* C5: whenever UnrealConnection.send_command fails it returns a dict with
\* status "error" and an "error" string, never None.
C5_FailuresAreErrorShaped ==
    (UnrealSent /\ CallFails(LastInput)) => ErrorShaped(last.out.v)

\* The bytes the peer delivers on one connection, joined.
RECURSIVE Join(_)
Join(reads) == IF reads = <<>> THEN <<>> ELSE Head(reads) \o Join(Tail(reads))

\* The JSON document the bytes b are, if they are one.
Document(text) == IF text.ok THEN JsonLoads(text.chars) ELSE [ok |-> FALSE, v |-> PyNone]

\* The peer's complete response to each input, as a JSON document.
RawOf == [n \in 1..NInputs |-> Document(Utf8Decode(Join(InputSeq[n].reads)))]

\* The message receive_full_response yields, decoded.
Message(framed) ==
    IF framed.raised \/ framed.v.t # "bytes"
    THEN [ok |-> FALSE, v |-> PyNone]
    ELSE Document(Utf8Decode(framed.v.s))

\* For each input, the decoded message of receive_full_response on the
\* peer's reads as they are delivered.
ParsedOf ==
    [n \in 1..NInputs |-> Message(ReceiveFullResponse(InputSeq[n].reads, InputSeq[n].end))]

\* The same with the peer's bytes delivered in a single chunk.
WholeParsedOf ==
    [n \in 1..NInputs |->
        Message(ReceiveFullResponse(Whole(Join(InputSeq[n].reads)), InputSeq[n].end))]

\* The call of input in connects and writes its command.
Reaches(in) ==
    /\ in.conn = "ok"
    /\ in.send = "ok"
    /\ JsonDumps(CommandObj(in.command, in.params)).ok

\* The call of input in connects, writes its command and is answered in one chunk.
AnsweredWhole(in) == Reaches(in) /\ Len(in.reads) = 1

T_unknown_error == <<"Unknown error">>

\* raw.error or raw.message or "Unknown error"
SpecErrorText(raw) ==
    PyOr(Get(raw, T_error), PyOr(Get(raw, T_message), PyStr(T_unknown_error)))

\* raw has status == "error" or success == false.
IsErrorReply(raw) ==
    /\ raw.t = "dict"
    /\ Get(raw, T_status) = PyStr(T_error) \/ Get(raw, T_success) = PyFalse

\* C6: when the response parsed by UnrealConnection.send_command has status
\* "error", or else success false, the call returns an error dict whose error
\* text is raw.error if non-empty, else raw.message if non-empty, else
\* "Unknown error".
C6_ErrorTextSelection ==
    (UnrealSent /\ Reaches(LastInput) /\ ParsedOf[last.in].ok
        /\ IsErrorReply(ParsedOf[last.in].v)) =>
        /\ ~last.out.raised
        /\ ErrorShaped(last.out.v)
        /\ Get(last.out.v, T_error) = SpecErrorText(ParsedOf[last.in].v)

StatusShape(x) == Reply(PyStr(T_error), Absent, PyStr(x), Absent, Absent)

SuccessShape(x) == Reply(Absent, PyFalse, PyStr(x), Absent, Absent)

ErrorTexts == {<<>>, <<"x">>}

\* C7: for every error text x, UnrealConnection.send_command returns for the
\* response {"status": "error", "error": x} the result it gives for the
\* response {"success": false, "error": x}.
C7_ShapeEquivalence ==
    \A x \in ErrorTexts :
        (UnrealSent /\ Reaches(LastInput) /\ ParsedOf[last.in].ok
            /\ ParsedOf[last.in].v = StatusShape(x)) =>
            last.out = Normalize(SuccessShape(x))

\* raw is a JSON object with neither status == "error" nor success == false.
IsSuccessReply(raw) == raw.t = "dict" /\ ~IsErrorReply(raw)

\* raw.result if present else raw
SpecPayload(raw) == IF HasKey(raw, T_result) THEN Get(raw, T_result) ELSE raw

PongReply == Reply(PyStr(T_success), Absent, Absent, Absent, Pong)

T_no_response == <<"No response">>

\* C9: when the peer's complete response is valid JSON but not an object,
\* send_command of either program returns a failure with the error text
\* "No response".
C9_NonObjectIsNoResponse ==
    (last.op = "send_command" /\ AnsweredWhole(LastInput) /\ RawOf[last.in].ok
        /\ RawOf[last.in].v.t # "dict") =>
        /\ ~last.out.raised
        /\ last.out.v.t = "dict"
        /\ Get(last.out.v, T_error) = PyStr(T_no_response)

\* C10: for a peer response that is one valid JSON document,
\* receive_full_response yields the same decoded message however the bytes
\* are split into reads as when they arrive in a single chunk.
C10_PartialDeliveryInvariance ==
    (UnrealSent /\ Reaches(LastInput) /\ RawOf[last.in].ok) =>
        ParsedOf[last.in] = WholeParsedOf[last.in]

\* The call of input in connects and writes its command, and the peer closes
\* the connection without writing a byte.
ClosedEarly(in) == Reaches(in) /\ in.reads = <<>> /\ in.end = "close"

T_closed_early == <<"Connection closed before receiving data">>

Streams(in) == Reaches(in) /\ in.end = "stream"

\* C12: against a peer that keeps delivering bytes that never parse as a
\* complete JSON document, UnrealConnection.send_command returns, with the
\* error of the framer's overflow guard.
C12_OverflowGuard ==
    (program = "unreal_mcp_server" /\ last.op \in {"send_command", "blocked"}
        /\ Streams(LastInput)) =>
        /\ last.op = "send_command"
        /\ ErrorShaped(last.out.v)

\* No read of the peer completes a JSON document or breaks off inside a
\* character: the buffer parses after none of the reads.
NeverParses(reads) ==
    \A k \in 1..Len(reads) :
        /\ Utf8Decode(Join(SubSeq(reads, 1, k))).ok
        /\ ~JsonLoads(Utf8Decode(Join(SubSeq(reads, 1, k))).chars).ok

\* The call of input in connects and writes its command, and the peer goes
\* silent with the connection open before a complete message has arrived.
ReadTimesOut(in) == Reaches(in) /\ in.end = "silent" /\ NeverParses(in.reads)

T_timeout == <<"Timeout receiving Unreal response">>

C13_PartialWitness ==
    /\ UnrealSent
    /\ ReadTimesOut(LastInput)
    /\ LastInput.reads # <<>>
    /\ Get(last.out.v, T_error) = PyStr(T_timeout)

\* The last byte of the non-empty byte string b is not a newline.
Unterminated(b) == b # <<>> /\ b[Len(b)] # "\n"

\* The call of input in connects and writes its command, and the peer writes
\* bytes without a newline at the end and closes the connection.
ClosesUnterminated(in) == Reaches(in) /\ in.end = "close" /\ Unterminated(Join(in.reads))

\* C14: when the peer sends one complete JSON document without a trailing
\* newline and closes, unreal_bridge.send_command returns the parsed
\* document.
C14_EndOfStreamMessage ==
    (BridgeSent /\ ClosesUnterminated(LastInput) /\ RawOf[last.in].ok) =>
        last.out = Return(RawOf[last.in].v)

\* Caller t has a send_command in progress that has connected.
InFlight(t) == inflight[t].pc \in {"connected", "sent"}

\* C15: while a call is in flight, the socket it connected or was handed is
\* open, is the one its connection object holds, and is the socket of no
\* other call in flight.
C15_ExclusiveOwnership ==
    \A t \in Callers :
        InFlight(t) =>
            /\ socks[inflight[t].sock].st = "connected"
            /\ program = "unreal_mcp_server" => unreal_connection.socket = inflight[t].sock
            /\ \A u \in Callers \ {t} : InFlight(u) => inflight[u].sock # inflight[t].sock

\* The command envelopes written to all sockets so far.
RECURSIVE Written(_)
Written(tbl) == IF tbl = <<>> THEN 0 ELSE Head(tbl).cmds + Written(Tail(tbl))

\* No read of the peer leaves the buffer ending in a newline.
NeverTerminated(reads) ==
    \A k \in 1..Len(reads) : Unterminated(Join(SubSeq(reads, 1, k)))

\* The call of input in connects and then meets an I/O failure: sendall
\* fails, or the read fails (reset or timeout) before the program has a
\* complete message and before the bridge's buffer is past its limit.
IOFails(in) ==
    /\ in.conn = "ok"
    /\ JsonDumps(CommandObj(in.command, in.params)).ok
    /\ \/ in.send # "ok"
       \/ /\ in.end \in {"silent", "reset"}
          /\ program = "unreal_mcp_server" => NeverParses(in.reads)
          /\ program = "unreal_bridge" =>
                /\ NeverTerminated(in.reads)
                /\ in.pad + Len(Join(in.reads)) <= BufferLimit

\* v is the failure value of the program: the error dict of
\* UnrealConnection.send_command, or a dict with an "error" of
\* unreal_bridge.send_command.
FailureValue(v) ==
    /\ v.t = "dict"
    /\ HasKey(v, T_error)
    /\ program = "unreal_mcp_server" => ErrorShaped(v)

\* The state after a send_command that met an I/O failure: the call has
\* returned its failure value, the socket it used is closed and the
\* program holds no connection.
FailedAndDiscarded ==
    /\ last.op = "send_command"
    /\ ~last.out.raised
    /\ FailureValue(last.out.v)
    /\ last.used # 0
    /\ socks[last.used].st = "closed"
    /\ unreal_connection.socket = 0
    /\ bridge_connection = 0

\* C16: a send_command call of either program makes at most one connect
\* attempt and writes the command envelope at most once; when it meets an
\* I/O failure during write or read it has made no further attempt and no
\* resend, has discarded the connection and returns the failure.
C16_NoSilentRetry ==
    [][calls' = calls + 1 =>
          /\ attempts' <= attempts + 1
          /\ Written(socks') <= Written(socks) + 1
          /\ IOFails(Met(last')) => FailedAndDiscarded']_vars

\* UnrealConnection.send_command met a sendall that failed, on a later call
\* than the first.
C16_Witness ==
    /\ UnrealSent
    /\ calls > 1
    /\ LastInput.send # "ok"
    /\ IOFails(LastInput)
    /\ FailedAndDiscarded

\* unreal_bridge.send_command met a read that timed out.
C16_BridgeWitness ==
    /\ BridgeSent
    /\ LastInput.send = "ok"
    /\ IOFails(LastInput)
    /\ FailedAndDiscarded

\* The last operation was an UnrealConnection.send_command that failed: it
\* did not connect, did not write its command, or did not obtain a message
\* that decodes and parses.
FailedCall == UnrealSent /\ ~(Reaches(LastInput) /\ ParsedOf[last.in].ok)

\* The peer of input in is reachable and answers correctly: the call
\* connects and writes, and the peer answers in one chunk with a JSON object
\* that reports no error.
AnswersCorrectly(n) ==
    /\ AnsweredWhole(InputSeq[n])
    /\ RawOf[n].ok
    /\ IsSuccessReply(RawOf[n].v)

\* C17: when an UnrealConnection.send_command has failed and the peer
\* answers the next send_command correctly, that call returns the peer's
\* response and releases its socket.
C17_FailuresAreRecoverable ==
    [][(FailedCall /\ calls' = calls + 1 /\ AnswersCorrectly(last'.in)) =>
          /\ last'.op = "send_command"
          /\ last'.out = Return(RawOf[last'.in].v)
          /\ unreal_connection' = [socket |-> 0, connected |-> FALSE]]_vars

\* Two send_command calls have been made and nothing else; the first wrote
\* no command, and the second was answered with the pong reply and returned
\* it.
C17_Witness ==
    /\ UnrealSent
    /\ calls = 2
    /\ Len(socks) = 2
    /\ socks[1].cmds = 0
    /\ last.used = 2
    /\ AnswersCorrectly(last.in)
    /\ last.out = Return(PongReply)

\* The peer of input n accepts the connection, reads the command, answers
\* with one valid JSON document followed by a newline, delivered whole, and
\* then closes its side.
RespondsAndCloses(n) ==
    /\ Reaches(InputSeq[n])
    /\ InputSeq[n].end = "close"
    /\ Len(InputSeq[n].reads) = 1
    /\ ~Unterminated(Join(InputSeq[n].reads))
    /\ RawOf[n].ok

\* Every unreal_bridge.send_command so far met such a peer and returned the
\* peer's parsed response.
AnsweredSoFar ==
    \/ last.op = "init"
    \/ /\ BridgeSent
       /\ RespondsAndCloses(last.in)
       /\ last.out = Return(RawOf[last.in].v)

\* C18: against a peer that answers each request with one valid
\* newline-terminated JSON response and then closes its side, every
\* unreal_bridge.send_command in a sequence of calls returns the parsed
\* response to its own request.
C18_SafeToCallRepeatedly ==
    [][(/\ program = "unreal_bridge"
        /\ AnsweredSoFar
        /\ calls' = calls + 1
        /\ RespondsAndCloses(last'.in)) =>
          last'.out = Return(RawOf[last'.in].v)]_vars

\* The operations that release the connection.
ReleaseOps == {"disconnect", "close_connection"}

\* The socket the running program holds, 0 when it holds none.
Held == IF program = "unreal_mcp_server" THEN unreal_connection.socket ELSE bridge_connection

\* C19: UnrealConnection.disconnect and unreal_bridge.close_connection raise
\* nothing, close the socket that is held and leave the handle cleared; when
\* no connection is held, which is the case of a second release in a row,
\* they change neither the sockets nor the handle.
C19_ReleaseIsIdempotent ==
    [][last'.op \in ReleaseOps =>
          /\ last'.out = Return(PyNone)
          /\ unreal_connection' = [socket |-> 0, connected |-> FALSE]
          /\ bridge_connection' = 0
          /\ Held # 0 => socks' = [socks EXCEPT ![Held].st = "closed"]
          /\ Held = 0 => /\ socks' = socks
                         /\ unreal_connection' = unreal_connection
                         /\ bridge_connection' = bridge_connection
          /\ last.op \in ReleaseOps => socks' = socks]_vars

\* disconnect was called with no connection held, after an earlier
\* disconnect closed the only socket there is.
C19_Witness ==
    /\ last.op = "disconnect"
    /\ last.used = 0
    /\ Len(socks) = 1
    /\ socks[1].st = "closed"

\* The same for close_connection.
C19_BridgeWitness ==
    /\ last.op = "close_connection"
    /\ last.used = 0
    /\ Len(socks) = 1
    /\ socks[1].st = "closed"
    /\ socks[1].peer = "open"

\* A connection has been established and used: a command was written to a
\* socket.
FirstUsed == \E i \in DOMAIN socks : socks[i].cmds > 0

\* C20: an unreal_bridge.initialize made after a connection has been
\* established leaves the configured host and port as they were, and every
\* command is exchanged with the host and port configured at the time of the
\* call.
C20_ConfigurationImmutable ==
    [][/\ (last'.op = "initialize" /\ FirstUsed) => bridge_host' = bridge_host
       /\ (program = "unreal_bridge" /\ calls' = calls + 1 /\ last'.used # 0) =>
             socks'[last'.used].addr = bridge_host']_vars

\* The bytes of the command envelope of input in.
Envelope(in) == Utf8Encode(JsonDumps(CommandObj(in.command, in.params)).chars)

\* C21: the only bytes written to a connection are the UTF-8 encoding of one
\* command envelope {"type": name, "params": object}, optionally followed by
\* one newline; get_unreal_connection and the connection test write nothing
\* else to a socket.
C21_WireDiscipline ==
    /\ \A i \in DOMAIN socks : socks[i].raw = <<>>
    /\ last.wrote # <<>> =>
          last.wrote \in {Envelope(LastInput), Envelope(LastInput) \o <<"\n">>}

\* The number of the read at which the receive loop of the bridge stops
\* when nothing else stops it: the first read that leaves the buffer ending
\* with a newline, and the last read when there is none.
RECURSIVE StopsAt(_, _)
StopsAt(reads, k) ==
    IF k >= Len(reads) \/ ~Unterminated(Join(SubSeq(reads, 1, k)))
    THEN k
    ELSE StopsAt(reads, k + 1)

\* The size of the buffer the bridge has accumulated by then.
Accumulated(in) ==
    IF in.reads = <<>>
    THEN in.pad
    ELSE in.pad + Len(Join(SubSeq(in.reads, 1, StopsAt(in.reads, 1))))

\* The buffer of the call of input in exceeds the limit: by what the peer
\* sends before the loop would stop, or because the peer streams without end.
Exceeds(in) == Reaches(in) /\ (in.end = "stream" \/ Accumulated(in) > BufferLimit)

\* C22: whenever the buffer unreal_bridge.send_command accumulates exceeds
\* the limit, the call closes the connection and returns None, whether or
\* not the buffer ends with a newline at that point; no response is parsed
\* and returned.
C22_BridgeOverflowGuard ==
    (BridgeSent /\ Exceeds(LastInput)) =>
        /\ last.out = Return(PyNone)
        /\ socks[last.used].st = "closed"
        /\ bridge_connection = 0

\* The buffer exceeded the limit without a newline at its end and the call
\* closed the connection and returned None.
C22_OverflowDetected ==
    /\ BridgeSent
    /\ Exceeds(LastInput)
    /\ LastInput.pad > 0
    /\ Unterminated(Join(LastInput.reads))
    /\ last.out = Return(PyNone)
    /\ socks[last.used].st = "closed"

\* The first message of the bytes b: the document of the shortest prefix of
\* b that ends with a newline and is one JSON document.
RECURSIVE FirstMessage(_, _)
FirstMessage(b, k) ==
    IF k > Len(b)
    THEN [ok |-> FALSE, v |-> PyNone]
    ELSE IF b[k] = "\n" /\ Document(Utf8Decode(SubSeq(b, 1, k))).ok
    THEN Document(Utf8Decode(SubSeq(b, 1, k)))
    ELSE FirstMessage(b, k + 1)

\* For each input, the first newline-terminated message the peer sends.
FirstMessageOf == [n \in 1..NInputs |-> FirstMessage(Join(InputSeq[n].reads), 1)]

\* C23: when the peer sends a newline-terminated response,
\* unreal_bridge.send_command returns the parsed message however the bytes
\* are split across reads, also when a read ends on a newline inside the
\* message and when bytes follow the terminator in the same read.
C23_NewlineChunkingInvariance ==
    (BridgeSent /\ Reaches(LastInput) /\ last.gone = "" /\ LastInput.pad = 0
        /\ FirstMessageOf[last.in].ok) =>
        last.out = Return(FirstMessageOf[last.in].v)

\* A response that ends with its only newline was delivered in several reads
\* and the call returned it parsed.
C23_SplitReturned ==
    /\ BridgeSent
    /\ Reaches(LastInput)
    /\ last.gone = ""
    /\ Len(LastInput.reads) > 1
    /\ FirstMessageOf[last.in].ok
    /\ last.out = Return(FirstMessageOf[last.in].v)

\* For each input, what receive_full_response does on the peer's reads.
FramedOf == [n \in 1..NInputs |-> ReceiveFullResponse(InputSeq[n].reads, InputSeq[n].end)]

\* C24: whatever the peer does, the receive_full_response of an
\* UnrealConnection.send_command returns bytes that are one complete JSON
\* document or raises; when the peer closes after a prefix that is no
\* complete document it raises and returns no value that is not bytes.
C24_BytesOrRaises ==
    (program = "unreal_mcp_server" /\ last.op \in {"send_command", "blocked"}
        /\ Reaches(LastInput)) =>
        \/ FramedOf[last.in].raised
        \/ /\ FramedOf[last.in].v.t = "bytes"
           /\ Document(Utf8Decode(FramedOf[last.in].v.s)).ok

\* The peer closed after a prefix that is no complete document, and the
\* send_command that received it failed on the value that is not bytes.
C24_ClosedAfterPrefix ==
    /\ UnrealSent
    /\ Reaches(LastInput)
    /\ LastInput.end = "close"
    /\ LastInput.reads # <<>>
    /\ ~ParsedOf[last.in].ok
    /\ FramedOf[last.in] = Return(PyNone)
    /\ ErrorShaped(last.out.v)

\* The sockets of the table that are connected and not closed.
Open(tbl) == {i \in DOMAIN tbl : tbl[i].st = "connected"}

\* C25: a tool invocation of unreal_mcp_server whose command reaches the
\* engine opens exactly one connection, counting the connection of
\* get_unreal_connection and the connection of send_command, and at most one
\* socket is open afterwards.
C25_OneConnectionPerToolCall ==
    [][(program = "tools" /\ last'.op = "tool" /\ last'.wrote # <<>>) =>
          /\ Len(socks') = Len(socks) + 1
          /\ Cardinality(Open(socks')) <= 1]_vars

\* A tool invocation found a connected socket, tested it, and opened one
\* connection for its command.
C25_TestedConnection ==
    /\ program = "tools"
    /\ last.op = "tool"
    /\ last.wrote # <<>>
    /\ Len(socks) = 2
    /\ socks[1].raw = PingByte

\* C26: a tool invocation that returns raises nothing and returns a dict:
\* the "Failed to connect to Unreal Engine" failure, with no command sent,
\* when get_unreal_connection returned nothing; the "No response from
\* Unreal Engine" failure when send_command returned None (its connect
\* failed) or an empty value; and otherwise what send_command returned, which
\* for a response that reports no error is the response itself.
C26_ToolResults ==
    (program = "tools" /\ last.op = "tool") =>
        /\ ~last.out.raised
        /\ last.out.v.t = "dict"
        /\ ~unreal_global =>
              /\ last.out = ToolFailure(T_connect_failed)
              /\ last.wrote = <<>>
              /\ last.used = 0
        /\ (unreal_global /\ LastInput.conn # "ok") => last.out = ToolFailure(T_no_reply)
        /\ (unreal_global /\ Reaches(LastInput) /\ ParsedOf[last.in].ok
               /\ IsSuccessReply(ParsedOf[last.in].v)) =>
              last.out = IF Truthy(ParsedOf[last.in].v)
                         THEN Return(ParsedOf[last.in].v)
                         ELSE ToolFailure(T_no_reply)
        /\ (unreal_global /\ LastInput.conn = "ok" /\ CallFails(LastInput)) =>
              ErrorShaped(last.out.v)

\* A tool invocation whose send_command could not connect returned the
\* "No response from Unreal Engine" failure.
C26_Witness ==
    /\ program = "tools"
    /\ last.op = "tool"
    /\ unreal_global
    /\ LastInput.conn # "ok"
    /\ last.out = ToolFailure(T_no_reply)

\* A tool invocation returned the engine's response unchanged.
C26_Unchanged ==
    /\ program = "tools"
    /\ last.op = "tool"
    /\ last.out = Return(PongReply)

\* A tool invocation found no connection and returned the failure without
\* sending.
C26_NoConnection ==
    /\ program = "tools"
    /\ last.op = "tool"
    /\ ~unreal_global
    /\ last.out = ToolFailure(T_connect_failed)

\* A value float() converts.
Convertible(v) == ~ToFloat(v).raised

\* A list of exactly three elements, each convertible to a number.
WellFormed(v) ==
    /\ v.t = "list"
    /\ Len(v.arr) = 3
    /\ \A i \in 1..3 : Convertible(v.arr[i])

\* The value after an empty one was replaced by its default.
OrDefault(v, default) == IF Truthy(v) THEN v ELSE default

\* The arguments the claim has the tool refuse.
Refused(a) ==
    \/ ~WellFormed(OrDefault(a.location, ZeroVector))
    \/ ~WellFormed(OrDefault(a.rotation, ZeroVector))
    \/ ~WellFormed(OrDefault(a.scale, UnitVector))

\* {"success": False, "message": <str>}
FailureResult(out) ==
    /\ ~out.raised
    /\ out.v.t = "dict"
    /\ DOMAIN out.v.obj = {T_success, T_message}
    /\ out.v.obj[T_success] = PyFalse
    /\ out.v.obj[T_message].t = "str"

\* C27: add_component_to_blueprint replaces an empty location, rotation or
\* scale by its default; when one of the three is then not a list of exactly
\* three elements, or has an element that cannot be converted to a number,
\* the invocation returns a failure result, acquires no connection and sends
\* nothing; what it sends otherwise carries the defaults for the empty ones.
C27_ValidationBeforeContact ==
    [][(program = "tools" /\ last'.op = "add_component_to_blueprint") =>
          /\ Refused(last'.args) =>
                /\ FailureResult(last'.out)
                /\ last'.wrote = <<>>
                /\ last'.used = 0
                /\ socks' = socks
                /\ unreal_global' = unreal_global
                /\ unreal_connection' = unreal_connection
                /\ attempts' = attempts
          /\ (~Refused(last'.args) /\ last'.wrote # <<>>) =>
                /\ ~Truthy(last'.args.location) =>
                      InputSeq[last'.in].params.obj[T_location] = ZeroVector
                /\ ~Truthy(last'.args.rotation) =>
                      InputSeq[last'.in].params.obj[T_rotation] = ZeroVector
                /\ ~Truthy(last'.args.scale) =>
                      InputSeq[last'.in].params.obj[T_scale] = UnitVector
                /\ last'.wrote = Envelope(InputSeq[last'.in])]_vars

\* An invocation whose rotation has an element that is no number returned
\* the failure while the module held a connection.
C27_Witness ==
    /\ program = "tools"
    /\ last.op = "add_component_to_blueprint"
    /\ unreal_global
    /\ last.args.rotation = Vectors[7]
    /\ last.in = 0
    /\ last.out = ToolFailure(T_component_error \o ToFloat(PyStr(<<"x">>)).exc.msg)

\* An invocation whose scale is a list of two returned the failure that
\* names the scale.
C27_BadFormat ==
    /\ program = "tools"
    /\ last.op = "add_component_to_blueprint"
    /\ last.args.scale = Vectors[5]
    /\ last.out = ToolFailure(InvalidFormat(T_scale))

\* An invocation with valid arguments sent its command.
C27_Sent ==
    /\ program = "tools"
    /\ last.op = "add_component_to_blueprint"
    /\ last.args.location = Vectors[4]
    /\ last.wrote # <<>>
    /\ last.out = Return(PongReply)

\* The operation that ended last leaves the object unusable: a failed
\* connect, a disconnect or a send_command that returned.
EndsUnusable ==
    \/ last.op = "connect" /\ last.out = Return(PyFalse)
    \/ last.op = "disconnect"
    \/ last.op = "send_command"

\* C28: after any sequence of connect, disconnect and send_command on an
\* UnrealConnection, connected is True only while the object holds a socket
\* that was connected and has not been closed, and connected is False after
\* every failed connect, every disconnect and every completed send_command.
C28_HandleState ==
    /\ unreal_connection.connected =>
          /\ unreal_connection.socket # 0
          /\ socks[unreal_connection.socket].st = "connected"
    /\ (program = "unreal_mcp_server" /\ EndsUnusable) => ~unreal_connection.connected

\* A connect failed on an object that was connected, after a command.
C28_Witness ==
    /\ program = "unreal_mcp_server"
    /\ calls > 0
    /\ last.op = "connect"
    /\ last.out = Return(PyFalse)
    /\ Len(socks) > 1
    /\ socks[Len(socks) - 1].st = "closed"
    /\ unreal_connection.socket = Len(socks)
    /\ ~unreal_connection.connected

\* The object is connected after a command and a connect.
C28_Connected ==
    /\ program = "unreal_mcp_server"
    /\ calls > 0
    /\ unreal_connection.connected
    /\ socks[unreal_connection.socket].st = "connected"

\* C29: unreal_bridge drops no socket unclosed: every socket _get_connection
\* created that the module no longer refers to has been closed, also when
\* the connect attempt timed out, was refused or failed otherwise.
C29_NoSocketDroppedUnclosed ==
    program = "unreal_bridge" =>
        \A i \in DOMAIN socks : i # bridge_connection => socks[i].st = "closed"

\* The sockets the module dropped unclosed were all dropped by a failed
\* connect: no socket that was connected is dropped unclosed.
C29_ConnectedSocketsClosed ==
    program = "unreal_bridge" =>
        \A i \in DOMAIN socks : i # bridge_connection => socks[i].st # "connected"

\* A connected socket was closed and the reference to it cleared.
C29_ClosedThenCleared ==
    /\ program = "unreal_bridge"
    /\ bridge_connection = 0
    /\ socks # <<>>
    /\ \A i \in DOMAIN socks : socks[i].st = "closed"

\* C30: the UnrealConnection of unreal_mcp/server.py and the one of
\* unreal_mcp_server.py are equivalent: for the same command and the same
\* peer behaviour their send_command calls return equal results and leave
\* the connection object and its sockets in the same state.
C30_ImplementationsEquivalent ==
    [][(program = "server" /\ last'.op \in {"server.send_command", "blocked"}) =>
          \E r \in {SendCommandCall(unreal_connection, socks, last'.in)} :
             /\ last'.out = r.out
             /\ last'.wrote = r.wrote
             /\ unreal_connection' = r.c
             /\ socks' = r.tbl]_vars

\* The response is an error response whose error field is present and empty
\* or null.
EmptyErrorField(raw) ==
    /\ raw.t = "dict"
    /\ Get(raw, T_status) = PyStr(T_error)
    /\ HasKey(raw, T_error)
    /\ ~Truthy(Get(raw, T_error))

\* The two copies agree on every call whose response is not an error
\* response with an empty or null error field.
C30_EquivalentOtherwise ==
    [][(program = "server" /\ last'.op \in {"server.send_command", "blocked"}
          /\ ~(Reaches(InputSeq[last'.in]) /\ ParsedOf[last'.in].ok
                 /\ EmptyErrorField(ParsedOf[last'.in].v))) =>
          \E r \in {SendCommandCall(unreal_connection, socks, last'.in)} :
             /\ last'.out = r.out
             /\ last'.wrote = r.wrote
             /\ unreal_connection' = r.c
             /\ socks' = r.tbl]_vars

\* server.py's send_command returned an error response with the error text
\* it took from the message field.
C30_ErrorFromMessage ==
    /\ program = "server"
    /\ last.op = "server.send_command"
    /\ EmptyErrorField(ParsedOf[last.in].v)
    /\ last.out.v.t = "dict"
    /\ Get(last.out.v, T_error) = PyStr(T_not_found)

\* The call of input in is one of the failures of the script: the connect,
\* the serialization or the write fails, the read is reset, or the peer
\* closes, before the bytes received are a JSON document.
ScriptFails(in) ==
    \/ in.conn # "ok"
    \/ in.send # "ok"
    \/ ~Serializable(in.command) \/ ~Serializable(in.params)
    \/ in.end \in {"close", "reset"} /\ ~JsonLoads(Utf8Decode(Join(in.reads)).chars).ok
                                     /\ NeverParses(in.reads)
    \/ \E k \in 1..Len(in.reads) : ~Utf8Decode(Join(SubSeq(in.reads, 1, k))).ok

\* C31: every send_command call of test_cube.py that returns has created a
\* new socket and closed it, has raised nothing, and has returned None when
\* it met a failure.
C31_ScriptAlwaysCloses ==
    [][(program = "test_cube" /\ last'.op = "test_cube.send_command") =>
          /\ Len(socks') = Len(socks) + 1
          /\ last'.used = Len(socks')
          /\ socks'[last'.used].st = "closed"
          /\ ~last'.out.raised
          /\ ScriptFails(InputSeq[last'.in]) => last'.out = Return(PyNone)]_vars

\* The same for the calls whose connect succeeds.
C31_ClosedOnceConnected ==
    [][(program = "test_cube" /\ last'.op = "test_cube.send_command"
          /\ InputSeq[last'.in].conn = "ok") =>
          /\ Len(socks') = Len(socks) + 1
          /\ last'.used = Len(socks')
          /\ socks'[last'.used].st = "closed"
          /\ ~last'.out.raised
          /\ ScriptFails(InputSeq[last'.in]) => last'.out = Return(PyNone)]_vars

\* A call whose write failed returned None with its socket closed.
C31_FailedWriteClosed ==
    /\ program = "test_cube"
    /\ last.op = "test_cube.send_command"
    /\ InputSeq[last.in].send # "ok"
    /\ last.out = Return(PyNone)
    /\ socks[last.used].st = "closed"

\* A call whose peer stays silent never returns.
C31_SilentPeerBlocks ==
    /\ program = "test_cube"
    /\ last.op = "blocked"
    /\ InputSeq[last.in].end = "silent"

C32_BasicBlueprintDone ==
    /\ program = "test_basic_blueprint"
    /\ main.state = "returned"
    /\ main.at > Len(TestBasicBlueprintMain)
    /\ Len(socks) = 4
    /\ \A i \in DOMAIN socks : socks[i].cmds = 1 /\ socks[i].st = "closed"

\* C33: the startup half of server_lifespan returns, with the connection
\* object or with None, whether or not the connect succeeded; and once the
\* lifespan has exited the global reference is cleared, the bridge holds no
\* connection and no socket of the process is still connected.
C33_Lifespan ==
    /\ last.op = "get_unreal_connection" =>
          /\ last.out \in {Return(PyTrue), Return(PyNone)}
          /\ (last.out = Return(PyTrue)) <=> unreal_global
    /\ last.op = "server_lifespan" =>
          /\ ~unreal_global
          /\ unreal_connection.socket = 0
          /\ bridge_connection = 0
          /\ \A i \in DOMAIN socks : socks[i].st # "connected"

\* The lifespan of unreal_mcp_server.py has exited and has closed the
\* connection the process still held.
C33_Witness ==
    /\ program = "tools"
    /\ last.op = "server_lifespan"
    /\ last.used # 0
    /\ socks[last.used].st = "closed"
    /\ socks[last.used].cmds = 0

\* The startup connection attempt failed and the lifespan has since exited
\* after a tool invocation.
C33_ExitAfterFailedStartup ==
    /\ program = "tools"
    /\ last.op = "server_lifespan"
    /\ last.used = 0
    /\ Len(socks) >= 2
    /\ socks[1].st = "new"

\* The lifespan of unreal_mcp/server.py has exited and has closed the
\* connection of the bridge.
C33_BridgeClosed ==
    /\ program = "unreal_bridge"
    /\ last.op = "server_lifespan"
    /\ last.used # 0
    /\ socks[last.used].st = "closed"
====
